---- MODULE Spec2Model ----
(***************************************************************************)
(* A model of the feo front end: Lexer::tokenize (src/src/lexer.rs) as a   *)
(* small-step state machine over the characters of a source text, and      *)
(* Parser::parse (src/src/parser.rs) as a state machine with a call stack, *)
(* one action for each parsing function.  The printer of src/src/ast.rs   *)
(* is a recursive operator over the AST.                                   *)
(***************************************************************************)
EXTENDS Integers, Sequences, FiniteSets, TLC

VARIABLES lexer, lpc, buf, nesting, had_dot, parser, ppc, input, stack, ret

vars == <<lexer, lpc, buf, nesting, had_dot, parser, ppc, input, stack, ret>>
lvars == <<lexer, lpc, buf, nesting, had_dot>>
pvars == <<parser, ppc, input, stack, ret>>

(***************************************************************************)
(* Bounds of the model.                                                    *)
(***************************************************************************)
MaxLen == 3
MaxTokens == 5
MaxBuf == 3
MaxLine == 4

Last(s) == s[Len(s)]

RECURSIVE SeqsOfLen(_, _)
SeqsOfLen(S, n) ==
  IF n = 0 THEN {<<>>}
  ELSE {Append(s, x) : s \in SeqsOfLen(S, n - 1), x \in S}

SeqsUpTo(S, n) == UNION {SeqsOfLen(S, k) : k \in 0..n}

(***************************************************************************)
(* Characters.  A source text is a sequence of one-character strings.      *)
(***************************************************************************)
NUL == "NUL"
Letters == {"a", "x", "f"}
Digits == {"0", "1", "5"}
HexLetters == {"a", "f"}

is_alphabetic(ch) == ch \in Letters
is_numeric(ch) == ch \in Digits
is_alphanumeric(ch) == is_alphabetic(ch) \/ is_numeric(ch)
is_ascii_hexdigit(ch) == ch \in Digits \cup HexLetters

Alphabet ==
  {"\n", " ", "(", "+", "=", "/", "*", "|", "a", "1", ".", "\"", "#", "-"}

(***************************************************************************)
(* Longer source texts, one set for each construct examined below.  Every  *)
(* text begins with a name, so that the cursor has left 0 when the         *)
(* construct is met, and ends with a character after the construct.        *)
(***************************************************************************)
\* two spellings of the same tokens and the tokens of the spaced spelling
SpacingCases ==
  {[dense |-> <<"x", "+", "1", ";">>,
    spaced |-> <<"x", " ", "+", " ", "1", ";">>,
    tokens |-> <<[kind |-> "Id", value |-> "x"], [kind |-> "Plus", value |-> ""],
                 [kind |-> "Num", value |-> "1"]>>],
   [dense |-> <<"f", "(", "x", ")">>,
    spaced |-> <<"f", " ", "(", " ", "x", " ", ")">>,
    tokens |-> <<[kind |-> "Id", value |-> "f"], [kind |-> "LParen", value |-> ""],
                 [kind |-> "Id", value |-> "x"], [kind |-> "RParen", value |-> ""]>>],
   [dense |-> <<"a", " ", "/", "/", "\n", "+", " ", "1", " ">>,
    spaced |-> <<"a", " ", "+", " ", "1", " ">>,
    tokens |-> <<[kind |-> "Id", value |-> "a"], [kind |-> "Plus", value |-> ""],
                 [kind |-> "Num", value |-> "1"]>>]}

NewlineSources ==
  {<<"a", " ", "\n", " ">>, <<"a", " ", "/", "*", "\n", " ">>}

\* a numeric literal after `a `, its spelling, and the kind of the token that
\* a `-` before it must give
NumberCases ==
  {[source |-> <<"a", " ", "1", "5", " ">>, text |-> "15", minus |-> FALSE],
   [source |-> <<"a", " ", "-", "5", " ">>, text |-> "-5", minus |-> FALSE],
   [source |-> <<"a", " ", "1", ".", "5", " ">>, text |-> "1.5", minus |-> FALSE],
   [source |-> <<"a", " ", "-", " ", "5", " ">>, text |-> "5", minus |-> TRUE]}

\* a balanced block comment between `a ` and ` (`
BalancedComments ==
  {<<"a", " ", "/", "*", " ", "*", "/", " ", "(">>,
   <<"a", " ", "/", "*", "*", "/", " ", "(">>,
   <<"a", " ", "/", "*", "/", "*", " ", "*", "/", "*", "/", " ", "(">>}

PlainComments ==
  {<<"a", " ", "/", "*", " ", "*", "/", " ", "(">>,
   <<"a", " ", "/", "*", "*", "/", " ", "(">>}

UnterminatedComments ==
  {<<"a", " ", "/", "*", " ">>, <<"a", " ", "/", "*", " ", "/", "*", " ", "*", "/">>}

\* a character that starts no token, or a lone '|', between `a ` and `(`
StrayCases ==
  {<<"a", " ", "#", "(">>, <<"a", " ", "|", "(">>, <<"a", " ", "|", " ", "(">>}

SampleSources ==
  {p.dense : p \in SpacingCases} \cup {p.spaced : p \in SpacingCases}
  \cup NewlineSources \cup {k.source : k \in NumberCases}
  \cup BalancedComments \cup UnterminatedComments \cup StrayCases

Sources == SeqsUpTo(Alphabet, MaxLen) \cup SampleSources

(***************************************************************************)
(* Tokens and diagnostics (crate::token::Token, crate::error::ParserError). *)
(***************************************************************************)
Token(kind, value, line, col) ==
  [kind |-> kind, value |-> value, position |-> <<line, col>>]

ParserError(msg, line, col) == [message |-> msg, line |-> line, col |-> col]

(***************************************************************************)
(* The Lexer.  lexer holds the fields of struct Lexer and a panic flag     *)
(* that is raised by a failed unwrap(); every helper leaves a panicked     *)
(* lexer alone, as the code after the panic never runs.                    *)
(***************************************************************************)
NewLexer(source) ==
  [errors |-> <<>>, source |-> source, tokens |-> <<>>, line |-> 1, col |-> 1,
   c |-> 0, current |-> " ", panic |-> FALSE]

is_end(L) ==
  Len(L.source) <= L.c /\ ~(Len(L.source) <= L.c + 1)

\* source.chars().nth(i).unwrap() fails when i is not an index of the source
NthFails(L, i) == i >= Len(L.source)

advance(L) ==
  IF L.panic THEN L
  ELSE IF ~is_end(L)
    THEN LET L1 == [L EXCEPT !.line = IF L.current = "\n" THEN @ + 1 ELSE @,
                             !.col = IF L.current = "\n" THEN 1 ELSE @ + 1,
                             !.c = @ + 1]
         IN IF NthFails(L1, L1.c) THEN [L1 EXCEPT !.panic = TRUE]
            ELSE [L1 EXCEPT !.current = L1.source[L1.c + 1]]
    ELSE [L EXCEPT !.c = Len(L.source)]

next_char_fails(L) == ~L.panic /\ ~is_end(L) /\ NthFails(L, L.c + 1)

next_char(L) ==
  IF is_end(L) \/ NthFails(L, L.c + 1) THEN NUL ELSE L.source[L.c + 2]

add_token(L, kind, value) ==
  IF L.panic THEN L
  ELSE [L EXCEPT !.tokens = Append(@, Token(kind, value, L.line, L.col))]

add_no_value_token(L, kind) == add_token(L, kind, "")

add_error(L, msg) ==
  IF L.panic THEN L
  ELSE [L EXCEPT !.errors = Append(@, ParserError(msg, L.line, L.col))]

Panicked(L) == [L EXCEPT !.panic = TRUE]

keyword(value) ==
  CASE value = "fn" -> "Func"
    [] value = "class" -> "Class"
    [] value = "static" -> "Static"
    [] value = "let" -> "Var"
    [] value = "const" -> "Const"
    [] value = "if" -> "If"
    [] value = "else" -> "Else"
    [] value = "for" -> "For"
    [] value = "while" -> "While"
    [] value = "super" -> "Super"
    [] value = "this" -> "This"
    [] value = "return" -> "Return"
    [] value = "continue" -> "Continue"
    [] value = "break" -> "Break"
    [] value = "true" -> "True"
    [] value = "false" -> "False"
    [] value = "null" -> "Null"
    [] value = "import" -> "Import"
    [] OTHER -> "None"

\* the single-character arms of the match in tokenize
PunctKind(ch) ==
  CASE ch = "(" -> "LParen" [] ch = ")" -> "RParen"
    [] ch = "{" -> "LBrace" [] ch = "}" -> "RBrace"
    [] ch = "[" -> "LBracket" [] ch = "]" -> "RBracket"
    [] ch = ":" -> "Colon" [] ch = ";" -> "SColon"
    [] ch = "@" -> "At" [] ch = "^" -> "Caret"
    [] ch = "," -> "Comma" [] ch = "." -> "Dot"
    [] OTHER -> "None"

\* the two-character look-ahead arms that always yield a token
OperatorChars == {"+", "-", "*", "%", "<", ">", "!", "="}

CompoundKind(ch, nx) ==
  CASE ch = "+" /\ nx = "+" -> "DPlus"  [] ch = "+" /\ nx = "=" -> "PlusEq"
    [] ch = "-" /\ nx = "-" -> "DMinus" [] ch = "-" /\ nx = "=" -> "MinusEq"
    [] ch = "*" /\ nx = "=" -> "MulEq"  [] ch = "%" /\ nx = "=" -> "ModEq"
    [] ch = "<" /\ nx = "|" -> "LPipe"  [] ch = "<" /\ nx = "=" -> "LTEq"
    [] ch = ">" /\ nx = "=" -> "GTEq"   [] ch = "!" /\ nx = "=" -> "BangEq"
    [] ch = "=" /\ nx = "=" -> "DEq"
    [] ch = "/" /\ nx = "=" -> "DivEq"
    [] ch = "|" /\ nx = ">" -> "RPipe"  [] ch = "|" /\ nx = "|" -> "DPipe"
    [] ch = "&" /\ nx = "&" -> "DAmp"
    [] OTHER -> "None"

SingleKind(ch) ==
  CASE ch = "+" -> "Plus" [] ch = "-" -> "Minus" [] ch = "*" -> "Mul"
    [] ch = "%" -> "Mod" [] ch = "<" -> "LT" [] ch = ">" -> "GT"
    [] ch = "!" -> "Bang" [] ch = "=" -> "Equal" [] ch = "/" -> "Div"
    [] OTHER -> "None"

\* a match on next_char(): the compound token and one advance, or the
\* single-character token
OperatorArm(L) ==
  IF next_char_fails(L) THEN Panicked(L)
  ELSE LET k == CompoundKind(L.current, next_char(L))
       IN IF k # "None" THEN advance(add_no_value_token(L, k))
          ELSE add_no_value_token(L, SingleKind(L.current))

\* the '|' and '&' arms: without a partner, advance and record an error
PartnerArm(L) ==
  IF next_char_fails(L) THEN Panicked(L)
  ELSE LET k == CompoundKind(L.current, next_char(L))
       IN IF k # "None" THEN advance(add_no_value_token(L, k))
          ELSE add_error(advance(L), "unrecognized character")

\* the head of the loop body: every iteration but the one at c = 0 advances
LoopHead(L) == IF L.c # 0 THEN advance(L) ELSE L

LexInit ==
  /\ lexer \in {NewLexer(s) : s \in Sources}
  /\ lpc = "start"
  /\ buf = ""
  /\ nesting = 0
  /\ had_dot = FALSE

LexGoto(L, target) ==
  /\ lexer' = L
  /\ lpc' = IF L.panic THEN "panicked" ELSE target
  /\ UNCHANGED pvars

\* self.current = self.source.chars().nth(self.c).unwrap();
TokenizeStart ==
  /\ lpc = "start"
  /\ LexGoto(IF NthFails(lexer, lexer.c) THEN Panicked(lexer)
             ELSE [lexer EXCEPT !.current = lexer.source[lexer.c + 1]], "loop")
  /\ UNCHANGED <<buf, nesting, had_dot>>

\* while !self.is_end()
LoopTest ==
  /\ lpc = "loop"
  /\ Len(lexer.tokens) < MaxTokens
  /\ lexer.line < MaxLine
  /\ lpc' = IF is_end(lexer) THEN "returned" ELSE "body"
  /\ UNCHANGED <<lexer, buf, nesting, had_dot, pvars>>

HeadPanics ==
  /\ lpc = "body"
  /\ LoopHead(lexer).panic
  /\ LexGoto(LoopHead(lexer), "loop")
  /\ UNCHANGED <<buf, nesting, had_dot>>

NewlineArm ==
  /\ lpc = "body"
  /\ LET L == LoopHead(lexer) IN
     /\ ~L.panic /\ L.current = "\n"
     /\ LexGoto([L EXCEPT !.line = @ + 1, !.col = 1], "loop")
  /\ UNCHANGED <<buf, nesting, had_dot>>

PunctArm ==
  /\ lpc = "body"
  /\ LET L == LoopHead(lexer) IN
     /\ ~L.panic /\ PunctKind(L.current) # "None"
     /\ LexGoto(add_no_value_token(L, PunctKind(L.current)), "loop")
  /\ UNCHANGED <<buf, nesting, had_dot>>

OperatorArmStep ==
  /\ lpc = "body"
  /\ LET L == LoopHead(lexer) IN
     /\ ~L.panic /\ L.current \in OperatorChars
     /\ LexGoto(OperatorArm(L), "loop")
  /\ UNCHANGED <<buf, nesting, had_dot>>

PartnerArmStep ==
  /\ lpc = "body"
  /\ LET L == LoopHead(lexer) IN
     /\ ~L.panic /\ L.current \in {"|", "&"}
     /\ LexGoto(PartnerArm(L), "loop")
  /\ UNCHANGED <<buf, nesting, had_dot>>

SlashArm ==
  /\ lpc = "body"
  /\ LET L == LoopHead(lexer) IN
     /\ ~L.panic /\ L.current = "/"
     /\ IF next_char_fails(L) THEN LexGoto(Panicked(L), "loop") /\ nesting' = nesting
        ELSE IF next_char(L) = "/" THEN LexGoto(L, "line_comment") /\ nesting' = nesting
        ELSE IF next_char(L) = "*" THEN LexGoto(L, "block_comment") /\ nesting' = 1
        ELSE LexGoto(OperatorArm(L), "loop") /\ nesting' = nesting
  /\ UNCHANGED <<buf, had_dot>>

\* while self.current != '\n' { self.advance(); }
LineCommentStep ==
  /\ lpc = "line_comment"
  /\ IF lexer.current # "\n" THEN LexGoto(advance(lexer), "line_comment")
     ELSE LexGoto(lexer, "loop")
  /\ UNCHANGED <<buf, nesting, had_dot>>

\* one iteration of the loop of skip_block_comment
BlockCommentStep ==
  /\ lpc = "block_comment"
  /\ IF nesting > 0
     THEN IF lexer.current = "\n"
          THEN /\ LexGoto(advance([lexer EXCEPT !.line = @ + 1, !.col = 1]),
                          "block_comment")
               /\ nesting' = nesting
          ELSE IF is_end(lexer)
          THEN /\ LexGoto(add_error(lexer, "an unterminated block comment"), "loop")
               /\ nesting' = nesting
          ELSE IF next_char_fails(lexer) /\ lexer.current \in {"*", "/"}
          THEN LexGoto(Panicked(lexer), "loop") /\ nesting' = nesting
          ELSE IF lexer.current = "*" /\ next_char(lexer) = "/"
          THEN /\ LexGoto(advance(advance(advance(lexer))), "block_comment")
               /\ nesting' = nesting - 1
          ELSE IF lexer.current = "/" /\ next_char(lexer) = "*"
          THEN /\ LexGoto(advance(advance(advance(lexer))), "block_comment")
               /\ nesting' = nesting + 1
          ELSE /\ LexGoto(advance(lexer), "block_comment")
               /\ nesting' = nesting
     ELSE LexGoto(lexer, "loop") /\ nesting' = nesting
  /\ UNCHANGED <<buf, had_dot>>

\* the default arm on a letter or '_': the first character of the name
IdentArm ==
  /\ lpc = "body"
  /\ LET L == LoopHead(lexer) IN
     /\ ~L.panic /\ (is_alphabetic(L.current) \/ L.current = "_")
     /\ IF (is_alphabetic(L.current) \/ L.current = "_") /\ ~is_numeric(L.current)
        THEN LexGoto(advance(L), "ident") /\ buf' = L.current
        ELSE LexGoto(L, "ident") /\ buf' = ""
  /\ UNCHANGED <<nesting, had_dot>>

\* the while loop of the identifier branch, then the keyword lookup
IdentStep ==
  /\ lpc = "ident"
  /\ Len(buf) < MaxBuf
  /\ IF ~is_end(lexer) /\ (is_alphanumeric(lexer.current) \/ lexer.current = "_")
     THEN LexGoto(advance(lexer), "ident") /\ buf' = buf \o lexer.current
     ELSE /\ LexGoto(IF keyword(buf) # "None"
                     THEN add_no_value_token(lexer, keyword(buf))
                     ELSE add_token(lexer, "Id", buf), "loop")
          /\ buf' = buf
  /\ UNCHANGED <<nesting, had_dot>>

\* the default arm on a digit or '-': the optional sign, then make_normal_number
NumberArm ==
  /\ lpc = "body"
  /\ LET L == LoopHead(lexer) IN
     /\ ~L.panic
     /\ PunctKind(L.current) = "None"
     /\ L.current \notin OperatorChars \cup {"|", "&", "/", "\n"}
     /\ ~(is_alphabetic(L.current) \/ L.current = "_")
     /\ is_numeric(L.current) \/ L.current = "-"
     /\ IF L.current = "-" /\ next_char_fails(L)
        THEN LexGoto(Panicked(L), "loop") /\ buf' = "" /\ had_dot' = FALSE
        ELSE IF L.current = "-" /\ is_numeric(next_char(L))
        THEN LexGoto(advance(L), "number") /\ buf' = L.current /\ had_dot' = FALSE
        ELSE IF is_numeric(L.current)
        THEN LexGoto(L, "number") /\ buf' = "" /\ had_dot' = FALSE
        ELSE LexGoto(L, "number_done") /\ buf' = "" /\ had_dot' = FALSE
  /\ UNCHANGED nesting

\* one iteration of the loop of make_normal_number
NumberStep ==
  /\ lpc = "number"
  /\ Len(buf) < MaxBuf + 2
  /\ IF ~is_end(lexer) /\ is_numeric(lexer.current)
     THEN LET L == advance(lexer)
              number == buf \o lexer.current
          IN IF L.panic THEN LexGoto(L, "number") /\ buf' = number /\ had_dot' = had_dot
             ELSE IF L.current = "." /\ next_char_fails(L)
             THEN LexGoto(Panicked(L), "number") /\ buf' = number /\ had_dot' = had_dot
             ELSE IF L.current = "." /\ is_numeric(next_char(L))
             THEN IF had_dot
                  THEN /\ LexGoto(add_error(L, "invalid dot"), "number")
                       /\ buf' = number /\ had_dot' = had_dot
                  ELSE /\ LexGoto(L, "number")
                       /\ buf' = number \o "." /\ had_dot' = TRUE
             ELSE LexGoto(L, "number") /\ buf' = number /\ had_dot' = had_dot
     ELSE LexGoto(lexer, "number_done") /\ UNCHANGED <<buf, had_dot>>
  /\ UNCHANGED nesting

\* after make_normal_number: the hex prefix test, then the Num token
NumberDone ==
  /\ lpc = "number_done"
  /\ IF lexer.current = "0" /\ next_char_fails(lexer)
     THEN LexGoto(Panicked(lexer), "loop")
     ELSE IF lexer.current = "0" /\ next_char(lexer) = "x"
     THEN LexGoto(advance(advance(lexer)), "hex")
     ELSE LexGoto(add_token(lexer, "Num", buf), "loop")
  /\ UNCHANGED <<buf, nesting, had_dot>>

\* the default arm on a double quote
StringArm ==
  /\ lpc = "body"
  /\ LET L == LoopHead(lexer) IN
     /\ ~L.panic /\ L.current = "\""
     /\ LexGoto(L, "string")
  /\ buf' = ""
  /\ UNCHANGED <<nesting, had_dot>>

\* the escape table of the string loop
Unescape(ch) ==
  CASE ch = "0" -> NUL [] ch = "n" -> "\n" [] ch = "r" -> "\r"
    [] ch = "t" -> "\t" [] OTHER -> ch

\* one iteration of a loop that scans without a head advance: the string
\* loop (lexer.rs 208-229) and the hex-digit loop (lexer.rs 198-200)
ScanStep ==
  /\ lpc \in {"string", "hex"}
  /\ Len(buf) < MaxBuf
  /\ IF lpc = "hex"
     THEN IF ~is_end(lexer) /\ is_ascii_hexdigit(lexer.current)
          THEN LexGoto(lexer, "hex") /\ buf' = buf \o lexer.current
          ELSE LexGoto(add_token(lexer, "Num", buf), "loop") /\ buf' = buf
     ELSE IF ~is_end(lexer) /\ lexer.current = "\""
          THEN IF lexer.current = "\\"
               THEN LET L == advance(lexer)
                    IN LexGoto(L, "string") /\ buf' = buf \o Unescape(L.current)
               ELSE /\ LexGoto(IF lexer.current = "\n"
                               THEN [lexer EXCEPT !.line = @ + 1, !.col = 1]
                               ELSE lexer, "string")
                    /\ buf' = buf \o lexer.current
          ELSE LexGoto(add_token(lexer, "Str", buf), "loop") /\ buf' = buf
  /\ UNCHANGED <<nesting, had_dot>>

\* the default arm on any other character: nothing is done
OtherArm ==
  /\ lpc = "body"
  /\ LET L == LoopHead(lexer) IN
     /\ ~L.panic
     /\ PunctKind(L.current) = "None"
     /\ L.current \notin OperatorChars \cup {"|", "&", "/", "\n", "\"", "-"}
     /\ ~(is_alphabetic(L.current) \/ L.current = "_")
     /\ ~is_numeric(L.current)
     /\ LexGoto(L, "loop")
  /\ UNCHANGED <<buf, nesting, had_dot>>

LexNext ==
  \/ TokenizeStart
  \/ LoopTest
  \/ HeadPanics
  \/ NewlineArm
  \/ PunctArm
  \/ OperatorArmStep
  \/ PartnerArmStep
  \/ SlashArm
  \/ LineCommentStep
  \/ BlockCommentStep
  \/ IdentArm
  \/ IdentStep
  \/ NumberArm
  \/ NumberStep
  \/ NumberDone
  \/ StringArm
  \/ ScanStep
  \/ OtherArm

(***************************************************************************)
(* The AST (src/src/ast.rs).  A node is a record with a tag; Node::EXPR    *)
(* and Node::STMT wrap an expression or a statement.                       *)
(***************************************************************************)
Binary(left, right, op) == [tag |-> "Binary", left |-> left, right |-> right, op |-> op]
Group(expr) == [tag |-> "Group", expr |-> expr]
Unary(right, op) == [tag |-> "Unary", right |-> right, op |-> op]
\* a faulty variant of Literal: the kind of the token is not kept
Literal_of_other_kind(kind, value) == [tag |-> "Literal", kind |-> "Id", value |-> value]

Literal(kind, value) == [tag |-> "Literal", kind |-> kind, value |-> value]
Logical(left, right, op) == [tag |-> "Logical", left |-> left, right |-> right, op |-> op]
Variable(name) == [tag |-> "Variable", name |-> name]
Assign(name, value) == [tag |-> "Assign", name |-> name, value |-> value]
Call(callee, args, token) == [tag |-> "Call", callee |-> callee, args |-> args, token |-> token]
Get(instance, token) == [tag |-> "Get", instance |-> instance, token |-> token]
Set(instance, token, value) ==
  [tag |-> "Set", instance |-> instance, token |-> token, value |-> value]
Func(params, body) == [tag |-> "Func", params |-> params, body |-> body]
Unknown == [tag |-> "Unknown"]

EXPR(e) == [node |-> "EXPR", v |-> e]
STMT(s) == [node |-> "STMT", v |-> s]

VariableStmt(name, init) == [tag |-> "Variable", name |-> name, init |-> init]
IfStmt(condition, then, els) ==
  [tag |-> "If", condition |-> condition, then |-> then, els |-> els]
Block(statements) == [tag |-> "Block", statements |-> statements]
WhileStmt(condition, body, token) ==
  [tag |-> "While", condition |-> condition, body |-> body, token |-> token]
FuncStmt(token, func) == [tag |-> "Func", token |-> token, func |-> func]
ReturnStmt(token, values) == [tag |-> "Return", token |-> token, values |-> values]
BreakStmt == [tag |-> "Break"]
ContinueStmt == [tag |-> "Continue"]
ImportStmt(name, token) == [tag |-> "Import", name |-> name, token |-> token]
StructStmt(token, fields, types) ==
  [tag |-> "Struct", token |-> token, fields |-> fields, types |-> types]

None == [some |-> FALSE]
Some(x) == [some |-> TRUE, v |-> x]

\* str::to_lowercase on the type names of the model's vocabulary
to_lowercase(value) ==
  CASE value = "String" -> "string"
    [] value = "NUMBER" -> "number"
    [] value = "Bool" -> "bool"
    [] value = "Any" -> "any"
    [] value = "List" -> "list"
    [] value = "MAP" -> "map"
    [] value = "Person" -> "person"
    [] OTHER -> value

TypeInfoOf(tok) ==
  LET lower == to_lowercase(tok.value)
  IN CASE lower = "string" -> [type |-> "Str"]
       [] lower = "number" -> [type |-> "Num"]
       [] lower = "bool" -> [type |-> "Bool"]
       [] lower = "any" -> [type |-> "Any"]
       [] lower = "list" -> [type |-> "List"]
       [] lower = "map" -> [type |-> "Map"]
       [] OTHER -> [type |-> "Id", token |-> tok]

(***************************************************************************)
(* The Parser.  A parser state P holds the fields c, current and errors of *)
(* struct Parser, the statements pushed so far, and two flags: panic, set  *)
(* by an index out of bounds, and stuck, set when an iteration of a loop   *)
(* ends with the cursor where it began and the loop goes on (the loop then *)
(* repeats that iteration forever, as control depends on c alone).  Every  *)
(* helper leaves a halted parser alone.                                    *)
(***************************************************************************)
NewParser(tokens) ==
  [c |-> 0, current |-> tokens[1], errors |-> <<>>, statements |-> <<>>,
   panic |-> FALSE, stuck |-> FALSE]

R(P, v) == [p |-> P, v |-> v]

Halted(P) == P.panic \/ P.stuck

p_is_end(P, tokens) == Halted(P) \/ tokens[P.c + 1].kind = "EOF"

check_current(P, kind, tokens) == ~Halted(P) /\ tokens[P.c + 1].kind = kind

check_next(P, kind, tokens) ==
  IF p_is_end(P, tokens) THEN FALSE ELSE tokens[P.c + 1].kind = kind

previous(P, tokens) == IF P.c = 0 THEN tokens[1] ELSE tokens[P.c]

p_advance(P, tokens) ==
  IF Halted(P) THEN P
  ELSE IF ~p_is_end(P, tokens)
    THEN [P EXCEPT !.c = @ + 1, !.current = tokens[P.c + 2]]
    ELSE [P EXCEPT !.panic = TRUE]

\* a faulty variant of push_error: the diagnostic without its position
push_error_nowhere(P, msg, position) ==
  IF Halted(P) THEN P
  ELSE [P EXCEPT !.errors = Append(@, ParserError(msg, 0, 0))]

push_error(P, msg, position) ==
  IF Halted(P) THEN P
  ELSE [P EXCEPT !.errors = Append(@, ParserError(msg, position[1], position[2]))]

p_add_error(P, msg) == push_error(P, msg, P.current.position)

\* a faulty variant of expect: a failed expectation consumes the token
expect_consuming(P, kind, message, tokens) ==
  IF Halted(P) THEN P
  ELSE IF check_current(P, kind, tokens) THEN p_advance(P, tokens)
  ELSE p_advance(p_add_error(P, message), tokens)

expect(P, kind, message, tokens) ==
  IF Halted(P) THEN P
  ELSE IF check_current(P, kind, tokens) THEN p_advance(P, tokens)
  ELSE p_add_error(P, message)

does_match(P, these, tokens) ==
  IF \E kind \in these : check_current(P, kind, tokens)
  THEN [ok |-> TRUE, p |-> p_advance(P, tokens)]
  ELSE [ok |-> FALSE, p |-> P]

Stuck(P) == [P EXCEPT !.stuck = TRUE]

\* an iteration that began at cursor c0 and ended in P with the loop going on
NoProgress(P, c0) == ~Halted(P) /\ P.c = c0

(***************************************************************************)
(* The recursive descent as a machine with a call stack.  A frame is a     *)
(* record [fn |-> the function, pc |-> where it resumes, its locals]; the  *)
(* frame on top of stack is the function that runs, and ret holds the      *)
(* value the last finished call returned.  One step runs a function from   *)
(* its entry, or from the return of a call it made, to its next call or    *)
(* to its return.  A loop that calls keeps in c0 the cursor at which its   *)
(* iteration began.                                                        *)
(***************************************************************************)
NoValue == [tag |-> "NoValue"]

Frame(fn) == [fn |-> fn, pc |-> "start"]

KindFrame(fn, kind) == [fn |-> fn, pc |-> "start", kind |-> kind]

Top == stack[Len(stack)]

Callers == SubSeq(stack, 1, Len(stack) - 1)

At(fn) == ppc = "running" /\ Len(stack) > 0 /\ Top.fn = fn

\* the end of a step: the parser is P, the stack is stk, v was returned
Goto(P, stk, v) ==
  /\ parser' = P
  /\ ppc' = IF P.panic THEN "panicked"
            ELSE IF P.stuck THEN "hung"
            ELSE IF Len(stk) = 0 THEN "returned"
            ELSE "running"
  /\ stack' = stk
  /\ ret' = v
  /\ UNCHANGED <<input, lvars>>

\* the running function calls callee and resumes as frame F
CallFrom(P, F, callee) == Goto(P, Callers \o <<F, callee>>, NoValue)

\* the running function ends with a call whose result is its own
TailCall(P, callee) == Goto(P, Callers \o <<callee>>, NoValue)

\* the running function goes on as frame F without a call
Continue(P, F) == Goto(P, Callers \o <<F>>, NoValue)

Return(P, v) == Goto(P, Callers, v)

\* while !self.is_end(tokens) { let node = declaration; statements.push(node) }
parse ==
  /\ At("parse")
  /\ LET F == Top
         P == IF F.pc = "start" THEN parser
              ELSE [parser EXCEPT !.statements = Append(@, ret)]
     IN IF p_is_end(P, input) THEN Return(P, NoValue)
        ELSE IF F.pc = "node" /\ NoProgress(P, F.c0) THEN Goto(Stuck(P), stack, ret)
        ELSE CallFrom(P, [fn |-> "parse", pc |-> "node", c0 |-> P.c],
                      Frame("declaration"))

expression ==
  /\ At("expression")
  /\ TailCall(parser, Frame("assignment"))

CompoundAssignOps == {"PlusEq", "MinusEq", "MulEq", "DivEq", "ModEq"}

assignment ==
  /\ At("assignment")
  /\ LET F == Top
         m1 == does_match(parser, CompoundAssignOps, input)
         m2 == does_match(parser, {"DPlus", "DMinus"}, input)
     IN CASE F.pc = "start" ->
               CallFrom(parser, [fn |-> "assignment", pc |-> "expr"], Frame("or_expr"))
          [] F.pc = "expr" ->
               LET expr == ret
               IN IF check_current(parser, "Equal", input)
                  THEN CallFrom(p_advance(parser, input),
                                [fn |-> "assignment", pc |-> "value", expr |-> expr,
                                 eq |-> parser.current],
                                Frame("assignment"))
                  ELSE IF m1.ok
                  THEN CallFrom(m1.p,
                                [fn |-> "assignment", pc |-> "compound", expr |-> expr,
                                 op |-> previous(m1.p, input)],
                                Frame("assignment"))
                  ELSE IF m2.ok
                  THEN LET op == previous(m2.p, input)
                       IN IF expr.tag = "Variable"
                          THEN Return(m2.p, Assign(expr.name,
                                             Binary(expr, Literal("Num", "1"), op)))
                          ELSE Return(p_add_error(m2.p, "expected a variable"), expr)
                  ELSE Return(parser, expr)
          [] F.pc = "value" ->
               LET expr == F.expr
                   value == ret
               IN IF expr.tag = "Variable" THEN Return(parser, Assign(expr.name, value))
                  ELSE IF expr.tag = "Get"
                  THEN Return(parser, Set(expr.instance, expr.token, value))
                  ELSE Return(push_error(parser, "invalid assignment target",
                                         F.eq.position), expr)
          [] F.pc = "compound" ->
               LET expr == F.expr
                   value == ret
               IN IF expr.tag = "Variable"
                  THEN Return(parser, Assign(expr.name, Binary(expr, value, F.op)))
                  ELSE Return(p_add_error(parser, "expected a variable"), expr)

\* a faulty variant of unexpected_token: the diagnostic without the advance
unexpected_token_stays(P, tokens) ==
  p_add_error(P, "unexpected token: " \o P.current.kind)

\* a faulty variant of lambda_body: the expression is not returned
lambda_body_bare(token, expr) == <<EXPR(expr)>>

\* the last branch of primary: a token no expression starts with
unexpected_token(P, tokens) ==
  p_advance(p_add_error(P, "unexpected token: " \o P.current.kind), tokens)

\* the body of an anonymous function given as a bare expression
lambda_body(token, expr) == <<STMT(ReturnStmt(token, <<expr>>))>>

primary ==
  /\ At("primary")
  /\ LET F == Top
         m1 == does_match(parser, {"True", "False", "Null"}, input)
         m2 == does_match(parser, {"Num", "Str"}, input)
         m3 == does_match(parser, {"Id"}, input)
         m4 == does_match(parser, {"LParen"}, input)
         m5 == does_match(parser, {"LBracket"}, input)
         m6 == does_match(parser, {"LBrace"}, input)
         m7 == does_match(parser, {"Func"}, input)
     IN CASE F.pc = "start" ->
               IF m1.ok
               THEN LET token == previous(m1.p, input)
                    IN Return(m1.p, Literal(token.kind, token.value))
               ELSE IF m2.ok
               THEN LET token == previous(m2.p, input)
                    IN Return(m2.p, Literal(token.kind, token.value))
               ELSE IF m3.ok THEN Return(m3.p, Variable(previous(m3.p, input)))
               ELSE IF m4.ok
               THEN CallFrom(m4.p, [fn |-> "primary", pc |-> "group"],
                             Frame("expression"))
               ELSE IF m5.ok THEN Return(m5.p, Unknown)
               ELSE IF m6.ok THEN Return(m6.p, Unknown)
               ELSE IF m7.ok
               THEN CallFrom(m7.p, [fn |-> "primary", pc |-> "params"],
                             KindFrame("parse_params", "anonymous function"))
               ELSE Return(unexpected_token(parser, input), Unknown)
          [] F.pc = "group" ->
               Return(expect(parser, "RParen", "expected ')'", input), Group(ret))
          [] F.pc = "params" ->
               IF check_current(parser, "RBrace", input)
               THEN TailCall(parser, KindFrame("function_body", "anonymous function"))
               ELSE CallFrom(parser,
                             [fn |-> "primary", pc |-> "lambda", params |-> ret,
                              token |-> previous(parser, input)],
                             Frame("expression"))
          [] F.pc = "lambda" ->
               Return(parser, Func(F.params, lambda_body(F.token, ret)))

\* the end of finish_call: the ')' and the argument of a backward pipe
finish_call_close(P, callee, args) ==
  LET P1 == expect(P, "RParen", "expected ')'", input)
      token == previous(P1, input)
      m == does_match(P1, {"LPipe"}, input)
  IN IF m.ok
     THEN CallFrom(m.p, [fn |-> "finish_call", pc |-> "piped", callee |-> callee,
                         args |-> args, token |-> token],
                   Frame("expression"))
     ELSE Return(P1, Call(callee, args, token))

\* a faulty variant of first_args: the operand of the pipe is dropped
first_args_dropped(arg) == <<>>

\* the arguments a call starts with: the left operand of |>, if there is one
first_args(arg) == IF arg.some THEN <<arg.v>> ELSE <<>>

finish_call ==
  /\ At("finish_call")
  /\ LET F == Top
         args == IF F.pc = "start" THEN first_args(F.arg) ELSE Append(F.args, ret)
         m == does_match(parser, {"Comma"}, input)
         more == [fn |-> "finish_call", pc |-> "arg", callee |-> F.callee,
                  args |-> args]
     IN CASE F.pc = "start" ->
               IF ~check_current(parser, "RParen", input)
               THEN CallFrom(parser, more, Frame("expression"))
               ELSE finish_call_close(parser, F.callee, args)
          [] F.pc = "arg" ->
               IF m.ok THEN CallFrom(m.p, more, Frame("expression"))
               ELSE finish_call_close(parser, F.callee, args)
          [] F.pc = "piped" ->
               Return(parser, Call(F.callee, args, F.token))

call ==
  /\ At("call")
  /\ LET F == Top
         P == IF F.pc = "index" THEN expect(parser, "RBracket", "expected ']'", input)
              ELSE parser
         expr == CASE F.pc = "expr" -> ret
                   [] F.pc = "index" -> Call(Get(F.expr, F.token), <<ret>>, F.token)
                   [] OTHER -> F.expr
         m1 == does_match(P, {"LParen"}, input)
         m2 == does_match(P, {"Dot"}, input)
         m3 == does_match(P, {"RPipe"}, input)
         m4 == does_match(P, {"LBracket"}, input)
     IN IF F.pc = "start"
        THEN CallFrom(parser, [fn |-> "call", pc |-> "expr", arg |-> F.arg],
                      Frame("primary"))
        ELSE IF m1.ok
        THEN CallFrom(m1.p, [fn |-> "call", pc |-> "expr", arg |-> F.arg],
                      [fn |-> "finish_call", pc |-> "start", callee |-> expr,
                       arg |-> F.arg])
        ELSE IF m2.ok
        THEN LET P1 == expect(m2.p, "Id", "expected an identifier", input)
                 name == previous(P1, input)
             IN Continue(P1, [fn |-> "call", pc |-> "loop", arg |-> F.arg,
                              expr |-> Get(expr, name)])
        ELSE IF m3.ok
        THEN TailCall(m3.p, [fn |-> "call", pc |-> "start", arg |-> Some(expr)])
        ELSE IF m4.ok
        THEN LET token == previous(m4.p, input)
             IN CallFrom(m4.p,
                         [fn |-> "call", pc |-> "index", arg |-> F.arg, expr |-> expr,
                          token |-> [token EXCEPT !.value = "__getitem__",
                                                  !.kind = "Id"]],
                         Frame("expression"))
        ELSE Return(P, expr)

unary ==
  /\ At("unary")
  /\ LET F == Top
         m == does_match(parser, {"Bang", "Minus"}, input)
     IN IF F.pc = "right" THEN Return(parser, Unary(ret, F.op))
        ELSE IF m.ok
        THEN CallFrom(m.p, [fn |-> "unary", pc |-> "right", op |-> previous(m.p, input)],
                      Frame("unary"))
        ELSE TailCall(parser, [fn |-> "call", pc |-> "start", arg |-> None])

factor ==
  /\ At("factor")
  /\ LET F == Top
         expr == IF F.pc = "left" THEN ret ELSE Binary(F.expr, ret, F.op)
         m == does_match(parser, {"Div", "Mul", "Mod"}, input)
     IN IF F.pc = "start"
        THEN CallFrom(parser, [fn |-> "factor", pc |-> "left"], Frame("unary"))
        ELSE IF m.ok
        THEN CallFrom(m.p, [fn |-> "factor", pc |-> "right", expr |-> expr,
                            op |-> previous(m.p, input)],
                      Frame("unary"))
        ELSE Return(parser, expr)

\* term with unary operands: the multiplicative level is left out
term_over_unary ==
  /\ At("term")
  /\ LET F == Top
         expr == IF F.pc = "left" THEN ret ELSE Binary(F.expr, ret, F.op)
         m == does_match(parser, {"Minus", "Plus"}, input)
     IN IF F.pc = "start"
        THEN CallFrom(parser, [fn |-> "term", pc |-> "left"], Frame("unary"))
        ELSE IF m.ok
        THEN CallFrom(m.p, [fn |-> "term", pc |-> "right", expr |-> expr,
                            op |-> previous(m.p, input)],
                      Frame("unary"))
        ELSE Return(parser, expr)

term ==
  /\ At("term")
  /\ LET F == Top
         expr == IF F.pc = "left" THEN ret ELSE Binary(F.expr, ret, F.op)
         m == does_match(parser, {"Minus", "Plus"}, input)
     IN IF F.pc = "start"
        THEN CallFrom(parser, [fn |-> "term", pc |-> "left"], Frame("factor"))
        ELSE IF m.ok
        THEN CallFrom(m.p, [fn |-> "term", pc |-> "right", expr |-> expr,
                            op |-> previous(m.p, input)],
                      Frame("factor"))
        ELSE Return(parser, expr)

comparison ==
  /\ At("comparison")
  /\ LET F == Top
         expr == IF F.pc = "left" THEN ret ELSE Binary(F.expr, ret, F.op)
         m == does_match(parser, {"GT", "GTEq", "LT", "LTEq"}, input)
     IN IF F.pc = "start"
        THEN CallFrom(parser, [fn |-> "comparison", pc |-> "left"], Frame("term"))
        ELSE IF m.ok
        THEN CallFrom(m.p, [fn |-> "comparison", pc |-> "right", expr |-> expr,
                            op |-> previous(m.p, input)],
                      Frame("term"))
        ELSE Return(parser, expr)

equality ==
  /\ At("equality")
  /\ LET F == Top
         expr == IF F.pc = "left" THEN ret ELSE Binary(F.expr, ret, F.op)
         m == does_match(parser, {"BangEq", "DEq"}, input)
     IN IF F.pc = "start"
        THEN CallFrom(parser, [fn |-> "equality", pc |-> "left"], Frame("comparison"))
        ELSE IF m.ok
        THEN CallFrom(m.p, [fn |-> "equality", pc |-> "right", expr |-> expr,
                            op |-> previous(m.p, input)],
                      Frame("comparison"))
        ELSE Return(parser, expr)

and_expr ==
  /\ At("and_expr")
  /\ LET F == Top
         expr == IF F.pc = "left" THEN ret ELSE Logical(F.expr, ret, F.op)
         m == does_match(parser, {"DAmp", "And"}, input)
     IN IF F.pc = "start"
        THEN CallFrom(parser, [fn |-> "and_expr", pc |-> "left"], Frame("equality"))
        ELSE IF m.ok
        THEN CallFrom(m.p, [fn |-> "and_expr", pc |-> "right", expr |-> expr,
                            op |-> previous(m.p, input)],
                      Frame("equality"))
        ELSE Return(parser, expr)

or_expr ==
  /\ At("or_expr")
  /\ LET F == Top
         expr == IF F.pc = "left" THEN ret ELSE Logical(F.expr, ret, F.op)
         m == does_match(parser, {"DPipe", "Or"}, input)
     IN IF F.pc = "start"
        THEN CallFrom(parser, [fn |-> "or_expr", pc |-> "left"], Frame("and_expr"))
        ELSE IF m.ok
        THEN CallFrom(m.p, [fn |-> "or_expr", pc |-> "right", expr |-> expr,
                            op |-> previous(m.p, input)],
                      Frame("and_expr"))
        ELSE Return(parser, expr)

declaration ==
  /\ At("declaration")
  /\ LET m1 == does_match(parser, {"Var"}, input)
         m2 == does_match(parser, {"Struct"}, input)
     IN IF m1.ok THEN TailCall(m1.p, Frame("var_declaration"))
        ELSE IF check_current(parser, "Func", input) /\ check_next(parser, "Id", input)
        THEN TailCall(p_advance(parser, input), KindFrame("function", "function"))
        ELSE IF m2.ok THEN TailCall(m2.p, Frame("struct_declaration"))
        ELSE TailCall(parser, Frame("statement"))

statement ==
  /\ At("statement")
  /\ LET F == Top
         kind == parser.current.kind
     IN IF F.pc = "block" THEN Return(parser, STMT(Block(ret)))
        ELSE CASE kind = "LBrace" ->
                    CallFrom(p_advance(parser, input),
                             [fn |-> "statement", pc |-> "block"], Frame("parse_block"))
               [] kind = "If" -> TailCall(parser, Frame("if_stmt"))
               [] kind = "While" -> TailCall(parser, Frame("while_stmt"))
               [] kind = "For" -> TailCall(parser, Frame("for_stmt"))
               [] kind = "Return" -> TailCall(parser, Frame("return_stmt"))
               [] kind = "Break" -> TailCall(parser, Frame("break_stmt"))
               [] kind = "Import" -> TailCall(parser, Frame("import_stmt"))
               [] kind = "Continue" -> TailCall(parser, Frame("continue_stmt"))
               [] OTHER -> TailCall(parser, Frame("expr_stmt"))

expr_stmt ==
  /\ At("expr_stmt")
  /\ IF Top.pc = "start"
     THEN CallFrom(parser, [fn |-> "expr_stmt", pc |-> "node"], Frame("expression"))
     ELSE Return(expect(parser, "SColon", "expected ';'", input), EXPR(ret))

continue_stmt ==
  /\ At("continue_stmt")
  /\ Return(expect(p_advance(parser, input), "SColon", "expected ';'", input),
            STMT(ContinueStmt))

import_stmt ==
  /\ At("import_stmt")
  /\ LET F == Top
     IN IF F.pc = "start"
        THEN CallFrom(p_advance(parser, input),
                      [fn |-> "import_stmt", pc |-> "name", token |-> parser.current],
                      Frame("expression"))
        ELSE Return(expect(parser, "SColon", "expected ';'", input),
                    STMT(ImportStmt(ret, F.token)))

if_stmt ==
  /\ At("if_stmt")
  /\ LET F == Top
     IN CASE F.pc = "start" ->
               CallFrom(expect(p_advance(parser, input), "LParen",
                               "expected '(' after 'if'", input),
                        [fn |-> "if_stmt", pc |-> "cond"], Frame("expression"))
          [] F.pc = "cond" ->
               CallFrom(expect(parser, "RParen", "expected ')' after if condition",
                               input),
                        [fn |-> "if_stmt", pc |-> "then", cond |-> ret],
                        Frame("statement"))
          [] F.pc = "then" ->
               LET resume == [fn |-> "if_stmt", pc |-> "els", cond |-> F.cond,
                              then |-> ret]
               IN IF check_current(parser, "Else", input)
                     /\ check_next(parser, "If", input)
                  THEN CallFrom(p_advance(parser, input), resume, Frame("if_stmt"))
                  ELSE IF check_current(parser, "Else", input)
                  THEN CallFrom(parser, resume, Frame("statement"))
                  ELSE Return(parser, STMT(IfStmt(F.cond, ret, None)))
          [] F.pc = "els" ->
               Return(parser, STMT(IfStmt(F.cond, F.then, Some(ret))))

break_stmt ==
  /\ At("break_stmt")
  /\ Return(expect(p_advance(parser, input), "SColon", "expected ';'", input),
            STMT(BreakStmt))

\* loop { values.push(expression); if !check_current(Comma) { break; } }
return_stmt ==
  /\ At("return_stmt")
  /\ LET F == Top
         token == IF F.pc = "start" THEN parser.current ELSE F.token
         P == IF F.pc = "start" THEN p_advance(parser, input) ELSE parser
         values == IF F.pc = "start" THEN <<>> ELSE Append(F.values, ret)
         again == IF F.pc = "start" THEN ~check_current(P, "SColon", input)
                  ELSE check_current(P, "Comma", input)
     IN IF ~again
        THEN Return(expect(P, "SColon", "expected ';'", input),
                    STMT(ReturnStmt(token, values)))
        ELSE IF F.pc = "value" /\ NoProgress(P, F.c0) THEN Goto(Stuck(P), stack, ret)
        ELSE CallFrom(P, [fn |-> "return_stmt", pc |-> "value", token |-> token,
                          values |-> values, c0 |-> P.c],
                      Frame("expression"))

while_stmt ==
  /\ At("while_stmt")
  /\ LET F == Top
     IN CASE F.pc = "start" ->
               CallFrom(expect(p_advance(parser, input), "LParen",
                               "expected '(' after 'while'", input),
                        [fn |-> "while_stmt", pc |-> "cond", token |-> parser.current],
                        Frame("expression"))
          [] F.pc = "cond" ->
               CallFrom(expect(parser, "RParen", "expected ')' after while condition",
                               input),
                        [fn |-> "while_stmt", pc |-> "body", token |-> F.token,
                         cond |-> ret],
                        Frame("statement"))
          [] F.pc = "body" ->
               Return(parser, STMT(WhileStmt(F.cond, ret, F.token)))

\* from the increment of a for statement on; F holds token, init and condition
for_increment(P, F) ==
  LET P1 == expect(P, "SColon", "expected ';'", input)
  IN IF ~check_current(P1, "RParen", input)
     THEN CallFrom(P1, [F EXCEPT !.pc = "increment"], Frame("expression"))
     ELSE CallFrom(expect(P1, "RParen", "expected ')'", input),
                   [F EXCEPT !.pc = "body", !.increment = None], Frame("statement"))

\* from the condition of a for statement on; F holds token and init
for_condition(P, F) ==
  IF ~check_current(P, "SColon", input)
  THEN CallFrom(P, [F EXCEPT !.pc = "condition"], Frame("expression"))
  ELSE for_increment(P, [F EXCEPT !.condition = None])

\* a faulty variant of for_desugar: the increment runs before the body
for_desugar_increment_first(token, init, condition, increment, stmt) ==
  LET body1 == IF increment.some
               THEN STMT(Block(<<EXPR(increment.v), stmt>>))
               ELSE stmt
      new_condition == IF condition.some THEN condition.v ELSE Literal("True", "")
      body2 == STMT(WhileStmt(new_condition, body1, token))
  IN IF init.some THEN STMT(Block(<<init.v, body2>>)) ELSE body2

\* the while statement that a for statement stands for
for_desugar(token, init, condition, increment, stmt) ==
  LET body1 == IF increment.some
               THEN STMT(Block(<<stmt, EXPR(increment.v)>>))
               ELSE stmt
      new_condition == IF condition.some THEN condition.v ELSE Literal("True", "")
      body2 == STMT(WhileStmt(new_condition, body1, token))
  IN IF init.some THEN STMT(Block(<<init.v, body2>>)) ELSE body2

for_stmt ==
  /\ At("for_stmt")
  /\ LET F == Top
         P1 == expect(p_advance(parser, input), "LParen", "expected '('", input)
         m1 == does_match(P1, {"SColon"}, input)
         m2 == does_match(P1, {"Var"}, input)
         F0 == [fn |-> "for_stmt", pc |-> "init", token |-> parser.current,
                init |-> None, condition |-> None, increment |-> None]
     IN CASE F.pc = "start" ->
               IF m1.ok THEN for_condition(m1.p, F0)
               ELSE IF m2.ok THEN CallFrom(m2.p, F0, Frame("var_declaration"))
               ELSE CallFrom(P1, F0, Frame("expr_stmt"))
          [] F.pc = "init" -> for_condition(parser, [F EXCEPT !.init = Some(ret)])
          [] F.pc = "condition" ->
               for_increment(parser, [F EXCEPT !.condition = Some(ret)])
          [] F.pc = "increment" ->
               CallFrom(expect(parser, "RParen", "expected ')'", input),
                        [F EXCEPT !.pc = "body", !.increment = Some(ret)],
                        Frame("statement"))
          [] F.pc = "body" ->
               Return(parser,
                      for_desugar(F.token, F.init, F.condition, F.increment, ret))

function ==
  /\ At("function")
  /\ LET F == Top
         P1 == expect(parser, "Id", "expected " \o F.kind \o " name", input)
     IN IF F.pc = "start"
        THEN CallFrom(P1, [fn |-> "function", pc |-> "body",
                           name |-> previous(P1, input)],
                      KindFrame("function_body", F.kind))
        ELSE Return(parser, STMT(FuncStmt(F.name, ret)))

function_body ==
  /\ At("function_body")
  /\ LET F == Top
     IN CASE F.pc = "start" ->
               CallFrom(parser, [fn |-> "function_body", pc |-> "params",
                                 kind |-> F.kind],
                        KindFrame("parse_params", F.kind))
          [] F.pc = "params" ->
               CallFrom(expect(parser, "LBrace",
                               "expected '{' before " \o F.kind \o " body", input),
                        [fn |-> "function_body", pc |-> "block", params |-> ret],
                        Frame("parse_block"))
          [] F.pc = "block" -> Return(parser, Func(F.params, ret))

\* a named function and the body of any function
function_step ==
  /\ ppc = "running"
  /\ (function \/ function_body)

RECURSIVE parse_params_loop(_, _, _), struct_loop(_, _, _, _)

\* loop { expect(Id); params.push(previous); if !does_match(Comma) { break; } }
parse_params_loop(P, params, tokens) ==
  LET P1 == expect(P, "Id", "expected an identifier", tokens)
      ps == Append(params, previous(P1, tokens))
      m == does_match(P1, {"Comma"}, tokens)
  IN IF ~m.ok THEN R(P1, ps)
     ELSE IF NoProgress(m.p, P.c) THEN R(Stuck(m.p), ps)
     ELSE parse_params_loop(m.p, ps, tokens)

parse_params ==
  /\ At("parse_params")
  /\ LET P1 == expect(parser, "LParen", "expected '(' after " \o Top.kind \o " name",
                      input)
         r == IF ~check_current(P1, "RParen", input)
              THEN parse_params_loop(P1, <<>>, input)
              ELSE R(P1, <<>>)
     IN Return(expect(r.p, "RParen", "expected ')' after parameters", input), r.v)

\* while !check_current(RBrace) && !is_end { stmts.push(declaration) }
parse_block ==
  /\ At("parse_block")
  /\ LET F == Top
         stmts == IF F.pc = "start" THEN <<>> ELSE Append(F.stmts, ret)
     IN IF ~check_current(parser, "RBrace", input) /\ ~p_is_end(parser, input)
        THEN IF F.pc = "stmt" /\ NoProgress(parser, F.c0)
             THEN Goto(Stuck(parser), stack, ret)
             ELSE CallFrom(parser, [fn |-> "parse_block", pc |-> "stmt",
                                    stmts |-> stmts, c0 |-> parser.c],
                           Frame("declaration"))
        ELSE Return(expect(parser, "RBrace", "expected '}' after a block", input),
                    stmts)

var_declaration ==
  /\ At("var_declaration")
  /\ LET F == Top
         P1 == expect(parser, "Id", "Expected an identifier", input)
         name == previous(P1, input)
         m == does_match(P1, {"Equal"}, input)
     IN IF F.pc = "start"
        THEN IF m.ok
             THEN CallFrom(m.p, [fn |-> "var_declaration", pc |-> "init",
                                 name |-> name],
                           Frame("expression"))
             ELSE Return(expect(P1, "SColon", "expected ';'", input),
                         STMT(VariableStmt(name, Literal("Null", ""))))
        ELSE Return(expect(parser, "SColon", "expected ';'", input),
                    STMT(VariableStmt(F.name, ret)))

\* the field loop of struct_declaration, from its test on
struct_loop(P, fields, types, tokens) ==
  IF ~check_current(P, "RBrace", tokens) /\ ~Halted(P)
  THEN LET P1 == expect(P, "Id", "expected an identifier", tokens)
           fs == Append(fields, previous(P1, tokens))
           P2 == expect(P1, "Colon", "expected ':'", tokens)
           isId == P2.current.kind = "Id"
           ts == IF isId THEN Append(types, TypeInfoOf(P2.current)) ELSE types
           P3 == IF isId THEN P2 ELSE p_add_error(P2, "invalid type info")
           P4 == p_advance(P3, tokens)
           P5 == expect(P4, "Comma", "expected ','", tokens)
       IN IF check_current(P4, "RBrace", tokens) \/ Halted(P4)
          THEN [p |-> P4, fields |-> fs, types |-> ts]
          ELSE IF NoProgress(P5, P.c)
          THEN [p |-> Stuck(P5), fields |-> fs, types |-> ts]
          ELSE struct_loop(P5, fs, ts, tokens)
  ELSE [p |-> P, fields |-> fields, types |-> types]

struct_declaration ==
  /\ At("struct_declaration")
  /\ LET P1 == expect(parser, "Id", "expected an identifier", input)
         token == previous(P1, input)
         P2 == expect(P1, "LBrace", "expected '{'", input)
         r == struct_loop(P2, <<>>, <<>>, input)
     IN Return(expect(r.p, "RBrace", "expected '}'", input),
               STMT(StructStmt(token, r.fields, r.types)))

(***************************************************************************)
(* The printer (src/src/ast.rs).                                           *)
(***************************************************************************)
RECURSIVE Join(_, _)
Join(strs, sep) ==
  IF Len(strs) = 0 THEN ""
  ELSE IF Len(strs) = 1 THEN strs[1]
  ELSE strs[1] \o sep \o Join(Tail(strs), sep)

\* Token::print: the literal text if the token carries one, else its kind
token_print(t) == IF t.value # "" THEN t.value ELSE t.kind

type_print(t) ==
  CASE t.type = "Str" -> "string"
    [] t.type = "Num" -> "number"
    [] t.type = "Bool" -> "bool"
    [] t.type = "Any" -> "any"
    [] t.type = "Map" -> "map"
    [] t.type = "List" -> "list"
    [] OTHER -> token_print(t.token)

PrintPanic == "<panic: invalidddddddd>"

Min(a, b) == IF a < b THEN a ELSE b

RECURSIVE expr_print(_), stmt_print(_), node_print(_)

expr_print(e) ==
  CASE e.tag = "Binary" ->
         "(" \o token_print(e.op) \o " " \o expr_print(e.left) \o " "
             \o expr_print(e.right) \o ")"
    [] e.tag = "Group" -> "(" \o expr_print(e.expr) \o ")"
    [] e.tag = "Unary" -> "(" \o token_print(e.op) \o " " \o expr_print(e.right) \o ")"
    [] e.tag = "Literal" ->
         (CASE e.kind = "Str" -> "\"" \o e.value \o "\""
            [] e.kind = "Atom" -> ":" \o e.value
            [] e.kind = "Underscore" -> ":_:"
            [] e.kind \in {"Num", "False", "True", "Null"} -> e.kind
            [] OTHER -> PrintPanic)
    [] e.tag = "Logical" ->
         "(" \o token_print(e.op) \o " " \o expr_print(e.left) \o " "
             \o expr_print(e.right) \o ")"
    [] e.tag = "Variable" -> token_print(e.name)
    [] e.tag = "Assign" ->
         "(assign " \o token_print(e.name) \o " " \o expr_print(e.value) \o ")"
    [] e.tag = "Call" ->
         "(" \o expr_print(e.callee) \o
         (IF Len(e.args) > 0
          THEN " " \o Join([i \in 1..Len(e.args) |-> expr_print(e.args[i])], " ") \o ")"
          ELSE ")")
    [] e.tag = "Get" -> expr_print(e.instance) \o "." \o token_print(e.token)
    [] e.tag = "Set" ->
         "(set " \o expr_print(e.instance) \o "." \o token_print(e.token) \o " "
                 \o expr_print(e.value) \o ")"
    [] e.tag = "Access" ->
         "(.access " \o expr_print(e.expr) \o " " \o expr_print(e.index) \o ")"
    [] e.tag = "Func" ->
         "(lambda (" \o Join([i \in 1..Len(e.params) |-> token_print(e.params[i])], " ")
         \o ") " \o Join([i \in 1..Len(e.body) |-> node_print(e.body[i])], " ") \o ")"
    [] OTHER -> "unknown"

stmt_print(s) ==
  CASE s.tag = "Expr" -> expr_print(s.expr)
    [] s.tag = "Variable" ->
         "(var " \o token_print(s.name) \o " " \o expr_print(s.init) \o ")"
    [] s.tag = "If" ->
         "(if (" \o expr_print(s.condition) \o ") " \o node_print(s.then)
         \o (IF s.els.some THEN node_print(s.els.v) ELSE "") \o ")"
    [] s.tag = "Block" ->
         LET stmts == Join([i \in 1..Len(s.statements) |-> node_print(s.statements[i])], " ")
         IN "(block" \o (IF stmts = "" THEN "" ELSE " " \o stmts) \o ")"
    [] s.tag = "While" ->
         "(while (" \o expr_print(s.condition) \o ") " \o node_print(s.body) \o ")"
    [] s.tag = "Func" ->
         "(func " \o token_print(s.token) \o " " \o expr_print(s.func) \o ")"
    [] s.tag = "Return" ->
         "(return " \o Join([i \in 1..Len(s.values) |-> expr_print(s.values[i])], " ")
         \o ")"
    [] s.tag = "Break" -> "(break)"
    [] s.tag = "Continue" -> "(continue)"
    [] s.tag = "Import" -> "(import " \o expr_print(s.name) \o ")"
    [] OTHER ->
         LET n == Min(Len(s.fields), Len(s.types))
             fields == [i \in 1..n |->
                          token_print(s.fields[i]) \o ":" \o type_print(s.types[i])]
         IN "(struct " \o token_print(s.token)
            \o (IF n > 0 THEN " " \o Join(fields, " ") ELSE "") \o ")"

node_print(n) == IF n.node = "EXPR" THEN expr_print(n.v) ELSE stmt_print(n.v)

pretty_print(nodes) == Join([i \in 1..Len(nodes) |-> node_print(nodes[i])], "\n")

(***************************************************************************)
(* Token streams.  A lexeme is the spelling of one token; LexemeToken      *)
(* gives the token the rules of tokenize yield for it (the keyword lookup  *)
(* for a name, Num for a digit run, the punctuation and operator arms),    *)
(* and TokensOf a stream of them closed by the EOF token that parse needs. *)
(***************************************************************************)
Names ==
  {"a", "b", "c", "x", "y", "i", "f", "g", "println", "add", "Person", "name", "age",
   "string", "NUMBER", "Bool", "any", "List", "map", "struct", "func",
   "fn", "let", "if", "else", "for", "while", "return", "continue", "break",
   "true", "false", "null", "import"}

Numbers == {"0", "1", "10"}

SymbolKind(w) ==
  CASE w = "++" -> CompoundKind("+", "+") [] w = "+=" -> CompoundKind("+", "=")
    [] w = "--" -> CompoundKind("-", "-") [] w = "-=" -> CompoundKind("-", "=")
    [] w = "*=" -> CompoundKind("*", "=") [] w = "/=" -> CompoundKind("/", "=")
    [] w = "%=" -> CompoundKind("%", "=") [] w = "|>" -> CompoundKind("|", ">")
    [] w = "<|" -> CompoundKind("<", "|") [] w = "==" -> CompoundKind("=", "=")
    [] w = "||" -> CompoundKind("|", "|") [] w = "&&" -> CompoundKind("&", "&")
    [] w = "!=" -> CompoundKind("!", "=") [] w = "<=" -> CompoundKind("<", "=")
    [] w = ">=" -> CompoundKind(">", "=")
    [] PunctKind(w) # "None" -> PunctKind(w)
    [] OTHER -> SingleKind(w)

LexemeToken(w, i) ==
  IF w \in Names
  THEN IF keyword(w) # "None" THEN Token(keyword(w), "", 1, i) ELSE Token("Id", w, 1, i)
  ELSE IF w \in Numbers THEN Token("Num", w, 1, i)
  ELSE Token(SymbolKind(w), "", 1, i)

EOFToken(i) == Token("EOF", "", 1, i)

TokensOf(ws) ==
  [i \in 1..(Len(ws) + 1) |->
     IF i <= Len(ws) THEN LexemeToken(ws[i], i) ELSE EOFToken(i)]

\* a stream of tokens given by kind, for the kinds no keyword yields
KindToken(k, i) ==
  IF k = "Id" THEN Token("Id", "x", 1, i)
  ELSE IF k = "Num" THEN Token("Num", "1", 1, i)
  ELSE Token(k, "", 1, i)

TokensOfKinds(ks) ==
  [i \in 1..(Len(ks) + 1) |->
     IF i <= Len(ks) THEN KindToken(ks[i], i) ELSE EOFToken(i)]

(***************************************************************************)
(* The inputs of parse: every token stream of at most MaxSeq tokens over   *)
(* KindAlphabet, and the streams of the constructs below, built from       *)
(* sample expressions.  A sample is [ws |-> its lexemes, ast |-> its AST   *)
(* without positions, txt |-> its printed form].                           *)
(***************************************************************************)
MaxSeq == 2
MaxParams == 2
MaxArgs == 1
MaxFields == 2
MaxValues == 2

KindAlphabet ==
  {"Id", "Equal", "SColon", "Comma", "Dot", "LParen", "RParen", "LBrace",
   "RBrace", "LBracket", "Var", "Func", "Struct", "Return", "If", "Else",
   "While", "For", "Continue", "Plus", "DPlus", "RPipe"}

ExhaustiveInputs == {TokensOfKinds(ks) : ks \in SeqsUpTo(KindAlphabet, MaxSeq)}

T(kind, value) == [kind |-> kind, value |-> value]
V(name) == Variable(T("Id", name))
Num(value) == Literal("Num", value)

Sample(ws, ast, txt) == [some |-> TRUE, ws |-> ws, ast |-> ast, txt |-> txt]
Absent == [some |-> FALSE, ws |-> <<>>, ast |-> Unknown, txt |-> ""]

ExprSamples ==
  { Sample(<<"x">>, V("x"), "x"),
    Sample(<<"1">>, Num("1"), "Num"),
    Sample(<<"y", "+", "1">>, Binary(V("y"), Num("1"), T("Plus", "")), "(Plus y Num)"),
    Sample(<<"g", "(", "y", ")">>, Call(V("g"), <<V("y")>>, T("RParen", "")), "(g y)") }

RECURSIVE Flatten(_, _)
Flatten(seqs, sep) ==
  IF Len(seqs) = 0 THEN <<>>
  ELSE IF Len(seqs) = 1 THEN seqs[1]
  ELSE seqs[1] \o sep \o Flatten(Tail(seqs), sep)

\* for (init?; cond?; incr?) body
ForInits ==
  { Absent,
    Sample(<<"let", "i", "=", "0", ";">>,
           STMT(VariableStmt(T("Id", "i"), Num("0"))), "(var i Num)"),
    Sample(<<"i", "=", "0", ";">>, EXPR(Assign(T("Id", "i"), Num("0"))),
           "(assign i Num)") }

ForConds ==
  { Absent,
    Sample(<<"i", "<", "10">>, Binary(V("i"), Num("10"), T("LT", "")), "(LT i Num)"),
    Sample(<<"true">>, Literal("True", ""), "True") }

ForIncrs ==
  { Absent,
    Sample(<<"i", "++">>,
           Assign(T("Id", "i"), Binary(V("i"), Num("1"), T("DPlus", ""))),
           "(assign i (DPlus i Num))"),
    Sample(<<"g", "(", "i", ")">>, Call(V("g"), <<V("i")>>, T("RParen", "")), "(g i)") }

ForBodies ==
  { Sample(<<"{", "println", "(", "i", ")", ";", "}">>,
           STMT(Block(<<EXPR(Call(V("println"), <<V("i")>>, T("RParen", "")))>>)),
           "(block (println i))"),
    Sample(<<"x", ";">>, EXPR(V("x")), "x"),
    Sample(<<"break", ";">>, STMT(BreakStmt), "(break)") }

ForCases == [init : ForInits, cond : ForConds, incr : ForIncrs, body : ForBodies]

ForWords(f) ==
  <<"for", "(">> \o (IF f.init.some THEN f.init.ws ELSE <<";">>) \o f.cond.ws
  \o <<";">> \o f.incr.ws \o <<")">> \o f.body.ws

\* fn (p1, ..., pn) expr, as a statement and as a let initializer
ParamNames == <<"x", "y", "i", "f">>
ParamLists == {SubSeq(ParamNames, 1, n) : n \in 0..Min(MaxParams, Len(ParamNames))}

Commas(ws) == Flatten([i \in 1..Len(ws) |-> <<ws[i]>>], <<",">>)

LambdaCases == [params : ParamLists, body : ExprSamples, let : BOOLEAN]

LambdaWords(l) ==
  (IF l.let THEN <<"let", "add", "=">> ELSE <<>>)
  \o <<"fn", "(">> \o Commas(l.params) \o <<")">> \o l.body.ws \o <<";">>

\* struct Person { f1: t1, ..., fn: tn }
FieldNames == <<"name", "age", "x", "y">>
TypeNames == {"string", "NUMBER", "Bool", "any", "List", "map", "Person"}

StructCases == UNION {[1..n -> TypeNames] : n \in 0..Min(MaxFields, Len(FieldNames))}

StructWords(types) ==
  <<"struct", "Person", "{">>
  \o Flatten([i \in 1..Len(types) |-> <<FieldNames[i], ":", types[i]>>], <<",">>)
  \o <<"}">>

\* the same declaration when the stream opens with a Struct token
StructTokens(types) ==
  [TokensOf(StructWords(types)) EXCEPT ![1] = Token("Struct", "", 1, 1)]

\* x op= e;  x = x op e;  x++;  x--;
CompoundCases == [op : {"+=", "-=", "*=", "/=", "%="}, e : ExprSamples]
CompoundWords(k) == <<"x", k.op>> \o k.e.ws \o <<";">>
IncrementWords(op) == <<"x", op, ";">>

BaseLexeme(op) ==
  CASE op \in {"+=", "++"} -> "+"
    [] op \in {"-=", "--"} -> "-"
    [] op = "*=" -> "*"
    [] op = "/=" -> "/"
    [] OTHER -> "%"

\* the long form, for the operands that bind tighter than the operator
PlainCases == {k \in CompoundCases : Len(k.e.ws) = 1 \/ k.e.ast.tag = "Call"}
PlainWords(k) == <<"x", "=", "x", BaseLexeme(k.op)>> \o k.e.ws \o <<";">>
PlainStepWords(op) == <<"x", "=", "x", BaseLexeme(op), "1", ";">>

\* a |> f(b1, ..., bn);  f(a, b1, ..., bn);  f(a1, ..., an) <| b;  f(a1, ..., an, b);
PipeHeads ==
  { Sample(<<"x">>, V("x"), "x"),
    Sample(<<"1">>, Num("1"), "Num"),
    Sample(<<"g", "(", "y", ")">>, Call(V("g"), <<V("y")>>, T("RParen", "")), "(g y)") }

ArgLists == UNION {[1..n -> ExprSamples] : n \in 0..MaxArgs}

PipeCases == [a : PipeHeads, bs : ArgLists]

ArgWords(args) == Flatten([i \in 1..Len(args) |-> args[i].ws], <<",">>)

ForwardPipeWords(k) ==
  k.a.ws \o <<"|>", "f", "(">> \o ArgWords(k.bs) \o <<")", ";">>
BackwardPipeWords(k) ==
  <<"f", "(">> \o ArgWords(k.bs) \o <<")", "<|">> \o k.a.ws \o <<";">>
PrependedCallWords(k) ==
  <<"f", "(">> \o ArgWords(<<k.a>> \o k.bs) \o <<")", ";">>
AppendedCallWords(k) ==
  <<"f", "(">> \o ArgWords(k.bs \o <<k.a>>) \o <<")", ";">>

\* statements of the other kinds, well formed and not
OtherWords ==
  { <<"let", "x", "=">>,
    <<"let", "x", ";">>,
    <<"return", "x", ",", "y", ";">>,
    <<"return", ",", ";">>,
    <<"return", ";">>,
    <<"fn", "(", "x", ",", ")", "x", ";">>,
    <<"fn", "(", "x", ")", "{", "return", "x", ";", "}", ";">>,
    <<"fn", "f", "(", "x", ")", "{", "}">>,
    <<"{", "x", ";", "}", "}">>,
    <<"{", "x", ";">>,
    <<"if", "(", "x", ")", "y", ";">>,
    <<"if", "(", "x", ")", "y", ";", "else", "g", ";">>,
    <<"if", "(", "x", ")", "y", ";", "else", "if", "(", "y", ")", "g", ";">>,
    <<"while", "(", "x", ")", "{", "continue", ";", "}">>,
    <<"import", "x", ";">>,
    <<"x", ".", "y", "=", "1", ";">>,
    <<"x", "[", "1", "]", ";">>,
    <<"(", "x", "=", "1", ";">>,
    <<"1", "=", "1", ";">>,
    <<"1", "+=", "1", ";">>,
    <<"1", "++", ";">>,
    <<"[", ";">> }

\* a struct body that the end of input cuts short
UnclosedStruct == TokensOfKinds(<<"Struct", "Id", "LBrace">>)

\* a op1 b op2 c ; for two binary operators, by the level of each in the
\* ladder of the claim, from the loosest (1) to the tightest (6)
BinaryOps == {"||", "&&", "==", "!=", "<", "<=", ">", ">=", "+", "-", "*", "/", "%"}

Level(op) ==
  CASE op = "||" -> 1
    [] op = "&&" -> 2
    [] op \in {"==", "!="} -> 3
    [] op \in {"<", "<=", ">", ">="} -> 4
    [] op \in {"+", "-"} -> 5
    [] OTHER -> 6

LadderCases == [op1 : BinaryOps, op2 : BinaryOps]

LadderWords(k) == <<"a", k.op1, "b", k.op2, "c", ";">>

\* fn f (p1, ..., pn) { stmts } and fn (p1, ..., pn) { stmts }
FuncBodies ==
  { Sample(<<>>, <<>>, ""),
    Sample(<<"return", "x", ";">>,
           <<STMT(ReturnStmt(T("Return", ""), <<V("x")>>))>>, "(return x)"),
    Sample(<<"x", ";", "g", "(", "y", ")", ";">>,
           <<EXPR(V("x")), EXPR(Call(V("g"), <<V("y")>>, T("RParen", "")))>>,
           "x (g y)") }

FuncCases == [params : ParamLists, body : FuncBodies]

NamedFuncWords(k) ==
  <<"fn", "f", "(">> \o Commas(k.params) \o <<")", "{">> \o k.body.ws \o <<"}">>

BlockLambdaCases == [params : ParamLists, body : FuncBodies, let : BOOLEAN]

BlockLambdaWords(k) ==
  (IF k.let THEN <<"let", "add", "=">> ELSE <<>>)
  \o <<"fn", "(">> \o Commas(k.params) \o <<")", "{">> \o k.body.ws \o <<"}", ";">>

\* if (c) s1, if (c) s1 else s2 and if (c1) s1 else if (c2) s2
StmtSamples ==
  { Sample(<<"y", ";">>, EXPR(V("y")), "y"),
    Sample(<<"{", "g", "(", "y", ")", ";", "}">>,
           STMT(Block(<<EXPR(Call(V("g"), <<V("y")>>, T("RParen", "")))>>)),
           "(block (g y))") }

IfCases ==
  [c1 : ExprSamples, s1 : StmtSamples, form : {"if", "else", "elseif"},
   c2 : {Sample(<<"i">>, V("i"), "i")}, s2 : StmtSamples]

IfWords(k) ==
  <<"if", "(">> \o k.c1.ws \o <<")">> \o k.s1.ws
  \o (CASE k.form = "else" -> <<"else">> \o k.s2.ws
        [] k.form = "elseif" -> <<"else", "if", "(">> \o k.c2.ws \o <<")">> \o k.s2.ws
        [] OTHER -> <<>>)

\* return e1, ..., en ;
ValueLists == UNION {[1..n -> ExprSamples] : n \in 0..MaxValues}

ReturnWords(vs) == <<"return">> \o ArgWords(vs) \o <<";">>

\* lhs = rhs ; for a left-hand side that is a variable, a member access, or
\* neither
Targets ==
  { [form |-> "variable", ws |-> <<"x">>, ast |-> V("x")],
    [form |-> "get", ws |-> <<"x", ".", "y">>, ast |-> Get(V("x"), T("Id", "y"))],
    [form |-> "other", ws |-> <<"1">>, ast |-> Num("1")],
    [form |-> "other", ws |-> <<"(", "x", ")">>, ast |-> Group(V("x"))],
    [form |-> "other", ws |-> <<"g", "(", "y", ")">>,
     ast |-> Call(V("g"), <<V("y")>>, T("RParen", ""))],
    [form |-> "other", ws |-> <<"y", "+", "1">>,
     ast |-> Binary(V("y"), Num("1"), T("Plus", ""))] }

AssignCases == [lhs : Targets, rhs : ExprSamples]

AssignWords(k) == k.lhs.ws \o <<"=">> \o k.rhs.ws \o <<";">>

ChainWords == <<"a", "=", "b", "=", "c", ";">>

\* struct x { x : 1 }: a field whose type position holds a number
UntypedField ==
  TokensOfKinds(<<"Struct", "Id", "LBrace", "Id", "Colon", "Num", "RBrace">>)

\* statements made of one literal token, of a token that is no literal, and
\* an assignment to a literal
LiteralKinds == {"Num", "Str", "True", "False", "Null"}

LiteralInputs ==
  {TokensOfKinds(<<k, "SColon">>) : k \in LiteralKinds \cup {"Atom", "Underscore"}}
  \cup {TokensOfKinds(<<k, "Equal", "Str", "SColon">>) : k \in LiteralKinds}
  \cup {TokensOfKinds(<<"For", "LParen", "SColon", "SColon", "RParen", "Null">>)}

Inputs ==
  ExhaustiveInputs
  \cup LiteralInputs
  \cup {UntypedField}
  \cup {TokensOf(AssignWords(k)) : k \in AssignCases}
  \cup {TokensOf(ChainWords)}
  \cup {TokensOf(LadderWords(k)) : k \in LadderCases}
  \cup {TokensOf(NamedFuncWords(k)) : k \in FuncCases}
  \cup {TokensOf(BlockLambdaWords(k)) : k \in BlockLambdaCases}
  \cup {TokensOf(IfWords(k)) : k \in IfCases}
  \cup {TokensOf(ReturnWords(vs)) : vs \in ValueLists}
  \cup {TokensOf(ws) : ws \in OtherWords}
  \cup {UnclosedStruct}
  \cup {TokensOf(PlainWords(k)) : k \in PlainCases}
  \cup {TokensOf(PlainStepWords(op)) : op \in {"++", "--"}}
  \cup {TokensOf(ForWords(f)) : f \in ForCases}
  \cup {TokensOf(LambdaWords(l)) : l \in LambdaCases}
  \cup {TokensOf(StructWords(t)) : t \in StructCases}
  \cup {StructTokens(t) : t \in StructCases}
  \cup {TokensOf(CompoundWords(k)) : k \in CompoundCases}
  \cup {TokensOf(IncrementWords(op)) : op \in {"++", "--"}}
  \cup {TokensOf(ForwardPipeWords(k)) : k \in PipeCases}
  \cup {TokensOf(BackwardPipeWords(k)) : k \in PipeCases}
  \cup {TokensOf(PrependedCallWords(k)) : k \in PipeCases}
  \cup {TokensOf(AppendedCallWords(k)) : k \in PipeCases}

(***************************************************************************)
(* An AST without the positions of its tokens.                             *)
(***************************************************************************)
StripToken(t) == [kind |-> t.kind, value |-> t.value]
StripTokens(ts) == [i \in 1..Len(ts) |-> StripToken(ts[i])]

RECURSIVE StripExpr(_), StripStmt(_), StripNode(_)

StripExpr(e) ==
  CASE e.tag = "Binary" ->
         Binary(StripExpr(e.left), StripExpr(e.right), StripToken(e.op))
    [] e.tag = "Group" -> Group(StripExpr(e.expr))
    [] e.tag = "Unary" -> Unary(StripExpr(e.right), StripToken(e.op))
    [] e.tag = "Logical" ->
         Logical(StripExpr(e.left), StripExpr(e.right), StripToken(e.op))
    [] e.tag = "Variable" -> Variable(StripToken(e.name))
    [] e.tag = "Assign" -> Assign(StripToken(e.name), StripExpr(e.value))
    [] e.tag = "Call" ->
         Call(StripExpr(e.callee), [i \in 1..Len(e.args) |-> StripExpr(e.args[i])],
              StripToken(e.token))
    [] e.tag = "Get" -> Get(StripExpr(e.instance), StripToken(e.token))
    [] e.tag = "Set" ->
         Set(StripExpr(e.instance), StripToken(e.token), StripExpr(e.value))
    [] e.tag = "Func" ->
         Func(StripTokens(e.params), [i \in 1..Len(e.body) |-> StripNode(e.body[i])])
    [] OTHER -> e

StripType(t) == IF t.type = "Id" THEN [t EXCEPT !.token = StripToken(@)] ELSE t

StripStmt(s) ==
  CASE s.tag = "Variable" -> VariableStmt(StripToken(s.name), StripExpr(s.init))
    [] s.tag = "If" ->
         IfStmt(StripExpr(s.condition), StripNode(s.then),
                IF s.els.some THEN Some(StripNode(s.els.v)) ELSE None)
    [] s.tag = "Block" ->
         Block([i \in 1..Len(s.statements) |-> StripNode(s.statements[i])])
    [] s.tag = "While" ->
         WhileStmt(StripExpr(s.condition), StripNode(s.body), StripToken(s.token))
    [] s.tag = "Func" -> FuncStmt(StripToken(s.token), StripExpr(s.func))
    [] s.tag = "Return" ->
         ReturnStmt(StripToken(s.token),
                    [i \in 1..Len(s.values) |-> StripExpr(s.values[i])])
    [] s.tag = "Import" -> ImportStmt(StripExpr(s.name), StripToken(s.token))
    [] s.tag = "Struct" ->
         StructStmt(StripToken(s.token), StripTokens(s.fields),
                    [i \in 1..Len(s.types) |-> StripType(s.types[i])])
    [] OTHER -> s

StripNode(n) == IF n.node = "EXPR" THEN EXPR(StripExpr(n.v)) ELSE STMT(StripStmt(n.v))

StripNodes(ns) == [i \in 1..Len(ns) |-> StripNode(ns[i])]


(***************************************************************************)
(* The two machines.  Spec runs tokenize on a source text; ParseSpec runs  *)
(* parse on a token stream that ends with the EOF token.                   *)
(***************************************************************************)
LexerIdle ==
  /\ lexer = NewLexer(<<>>)
  /\ lpc = "idle"
  /\ buf = ""
  /\ nesting = 0
  /\ had_dot = FALSE

ParseInit ==
  /\ input \in Inputs
  /\ parser = NewParser(input)
  /\ ppc = "running"
  /\ stack = <<Frame("parse")>>
  /\ ret = NoValue
  /\ LexerIdle

ParseNext ==
  \/ parse
  \/ expression
  \/ assignment
  \/ primary
  \/ finish_call
  \/ call
  \/ unary
  \/ factor
  \/ term
  \/ comparison
  \/ equality
  \/ and_expr
  \/ or_expr
  \/ declaration
  \/ statement
  \/ expr_stmt
  \/ continue_stmt
  \/ import_stmt
  \/ if_stmt
  \/ break_stmt
  \/ return_stmt
  \/ while_stmt
  \/ for_stmt
  \/ function_step
  \/ parse_params
  \/ parse_block
  \/ var_declaration
  \/ struct_declaration

ParseSpec == ParseInit /\ [][ParseNext]_vars

ParserIdle ==
  /\ parser = NewParser(<<EOFToken(1)>>)
  /\ ppc = "idle"
  /\ input = <<>>
  /\ stack = <<>>
  /\ ret = NoValue

Init == LexInit /\ ParserIdle

Next == LexNext

Spec == Init /\ [][Next]_vars

(***************************************************************************)
(* Claims about Lexer::tokenize, under Spec.                               *)
(***************************************************************************)
LexStopped == lpc \in {"returned", "panicked"}

\* tokenize has no normal return: is_end is never true, so the loop at
\* lexer.rs:30 ends only by a panic (an invariant of Spec)
TokenizeNeverReturns == lpc # "returned"

\* C1: for every source text, valid or malformed, tokenize reaches its
\* return after finitely many steps: it never ends in a crash.
C1_TokenizeNeverCrashes == lpc # "panicked"

\* C2: whenever tokenize is over, the token list is non-empty and its last
\* token is the EOF sentinel, also when diagnostics were recorded.
C2_StreamEndsWithEOF ==
  LexStopped => Len(lexer.tokens) > 0 /\ Last(lexer.tokens).kind = "EOF"

(***************************************************************************)
(* Claims about Parser::parse, under ParseSpec.                            *)
(***************************************************************************)
Returned == ppc = "returned"

Program == StripNodes(parser.statements)

Printed == pretty_print(parser.statements)

Clean == parser.errors = <<>>

\* C3: for every token sequence that ends with EOF, parse returns a program
\* and a diagnostic list without crashing.
C3_ParseNeverCrashes == ppc # "panicked"

\* C4: every iteration of the top-level loop, of the block loop, of the
\* field loop, of the parameter loop and of the return-value loop consumes
\* a token or ends the loop: no iteration leaves the cursor where it was
\* and goes on.
C4_EveryIterationAdvances == ppc # "hung"

\* an iteration of the top-level loop is over, expectations have failed in
\* it, and the cursor is past the place where the iteration began
C4_Witness ==
  /\ At("parse")
  /\ Top.pc = "node"
  /\ Len(parser.errors) > 0
  /\ parser.c > Top.c0

RECURSIVE ExprHasUnknown(_), NodeHasUnknown(_)

ExprHasUnknown(e) ==
  CASE e.tag = "Unknown" -> TRUE
    [] e.tag \in {"Binary", "Logical"} ->
         ExprHasUnknown(e.left) \/ ExprHasUnknown(e.right)
    [] e.tag = "Group" -> ExprHasUnknown(e.expr)
    [] e.tag = "Unary" -> ExprHasUnknown(e.right)
    [] e.tag = "Assign" -> ExprHasUnknown(e.value)
    [] e.tag = "Call" ->
         ExprHasUnknown(e.callee)
         \/ \E i \in 1..Len(e.args) : ExprHasUnknown(e.args[i])
    [] e.tag = "Get" -> ExprHasUnknown(e.instance)
    [] e.tag = "Set" -> ExprHasUnknown(e.instance) \/ ExprHasUnknown(e.value)
    [] e.tag = "Func" -> \E i \in 1..Len(e.body) : NodeHasUnknown(e.body[i])
    [] OTHER -> FALSE

NodeHasUnknown(n) ==
  IF n.node = "EXPR" THEN ExprHasUnknown(n.v)
  ELSE LET s == n.v
       IN CASE s.tag = "Variable" -> ExprHasUnknown(s.init)
            [] s.tag = "If" ->
                 \/ ExprHasUnknown(s.condition)
                 \/ NodeHasUnknown(s.then)
                 \/ (s.els.some /\ NodeHasUnknown(s.els.v))
            [] s.tag = "Block" ->
                 \E i \in 1..Len(s.statements) : NodeHasUnknown(s.statements[i])
            [] s.tag = "While" -> ExprHasUnknown(s.condition) \/ NodeHasUnknown(s.body)
            [] s.tag = "Func" -> ExprHasUnknown(s.func)
            [] s.tag = "Return" ->
                 \E i \in 1..Len(s.values) : ExprHasUnknown(s.values[i])
            [] s.tag = "Import" -> ExprHasUnknown(s.name)
            [] OTHER -> FALSE

\* C5: if an Unknown expression occurs anywhere in the program parse
\* returns, at least one diagnostic was recorded in that run.
C5_UnknownHasDiagnostic ==
  (Returned /\ \E i \in 1..Len(parser.statements) :
                 NodeHasUnknown(parser.statements[i]))
  => Len(parser.errors) > 0

\* the desugared form of for (init?; cond?; incr?) body, as the claim gives it
ForExpected(f) ==
  LET body == IF f.incr.some
              THEN STMT(Block(<<f.body.ast, EXPR(f.incr.ast)>>))
              ELSE f.body.ast
      cond == IF f.cond.some THEN f.cond.ast ELSE Literal("True", "")
      loop == STMT(WhileStmt(cond, body, T("For", "")))
  IN IF f.init.some THEN STMT(Block(<<f.init.ast, loop>>)) ELSE loop

ForText(f) ==
  LET body == IF f.incr.some
              THEN "(block " \o f.body.txt \o " " \o f.incr.txt \o ")"
              ELSE f.body.txt
      cond == IF f.cond.some THEN f.cond.txt ELSE "True"
      loop == "(while (" \o cond \o ") " \o body \o ")"
  IN IF f.init.some THEN "(block " \o f.init.txt \o " " \o loop \o ")" ELSE loop

\* for (let i = 0; i < 10; i++) { println(i); }
ForExample ==
  <<"for", "(", "let", "i", "=", "0", ";", "i", "<", "10", ";", "i", "++", ")",
    "{", "println", "(", "i", ")", ";", "}">>

ForExampleText ==
  "(block (var i Num) (while ((LT i Num)) (block (block (println i)) (assign i (DPlus i Num)))))"

\* C6: a for statement parses without diagnostics to the desugared while
\* form: init (when present), then a While whose condition is cond, or the
\* literal true, and whose body is the body followed by incr (when
\* present); it is printed (block <init> (while (<cond>) (block <body> <incr>))).
C6_ForDesugarsToWhile ==
  Returned =>
    /\ \A f \in ForCases :
         input = TokensOf(ForWords(f)) =>
           /\ Clean
           /\ Program = <<ForExpected(f)>>
           /\ Printed = ForText(f)
    /\ input = TokensOf(ForExample) => Printed = ForExampleText

\* parse has returned from a for statement with all three clauses
C6_Witness ==
  /\ Returned
  /\ \E f \in ForCases :
       /\ f.init.some /\ f.cond.some /\ f.incr.some
       /\ input = TokensOf(ForWords(f))
  /\ Len(parser.statements) = 1

\* fn (p1, ..., pn) expr as the claim gives it: the parameters in source
\* order and a body of one Return of the expression
LambdaExpected(l) ==
  LET params == [i \in 1..Len(l.params) |-> T("Id", l.params[i])]
      func == Func(params, <<STMT(ReturnStmt(T("RParen", ""), <<l.body.ast>>))>>)
  IN IF l.let THEN STMT(VariableStmt(T("Id", "add"), func)) ELSE EXPR(func)

LambdaText(l) ==
  LET func == "(lambda (" \o Join(l.params, " ") \o ") (return " \o l.body.txt \o "))"
  IN IF l.let THEN "(var add " \o func \o ")" ELSE func

\* C7: an anonymous function with a bare-expression body parses without
\* diagnostics to Func{params in source order, body = [Return[expr]]},
\* printed (lambda (p1 ... pn) (return <expr>)), and as a let initializer
\* (var name (lambda (...) (return <expr>))).
C7_LambdaReturnsItsExpression ==
  Returned =>
    \A l \in LambdaCases :
      input = TokensOf(LambdaWords(l)) =>
        /\ Clean
        /\ Program = <<LambdaExpected(l)>>
        /\ Printed = LambdaText(l)

\* parse has returned from let add = fn (x, y) <expr>;
C7_Witness ==
  /\ Returned
  /\ \E l \in LambdaCases :
       /\ l.let
       /\ Len(l.params) = 2
       /\ input = TokensOf(LambdaWords(l))
  /\ Len(parser.statements) = 1

\* the type a type name stands for, as the claim gives it
TypeExpected(name) ==
  CASE name = "string" -> [type |-> "Str"]
    [] name = "NUMBER" -> [type |-> "Num"]
    [] name = "Bool" -> [type |-> "Bool"]
    [] name = "any" -> [type |-> "Any"]
    [] name = "List" -> [type |-> "List"]
    [] name = "map" -> [type |-> "Map"]
    [] OTHER -> [type |-> "Id", token |-> T("Id", name)]

TypeText(name) ==
  CASE name = "NUMBER" -> "number"
    [] name = "Bool" -> "bool"
    [] name = "List" -> "list"
    [] OTHER -> name

StructExpected(types) ==
  STMT(StructStmt(T("Id", "Person"),
                  [i \in 1..Len(types) |-> T("Id", FieldNames[i])],
                  [i \in 1..Len(types) |-> TypeExpected(types[i])]))

StructText(types) ==
  "(struct Person"
  \o (IF Len(types) > 0
      THEN " " \o Join([i \in 1..Len(types) |->
                          FieldNames[i] \o ":" \o TypeText(types[i])], " ")
      ELSE "")
  \o ")"

StructParsed(types) ==
  /\ Clean
  /\ Program = <<StructExpected(types)>>
  /\ Printed = StructText(types)

\* C8: struct Name { f1: t1, ..., fn: tn } parses without diagnostics to a
\* struct declaration with the fields in declared order, each with its own
\* type, printed (struct Name f1:t1 ... fn:tn).
C8_StructDeclarationParses ==
  Returned =>
    \A types \in StructCases :
      input = TokensOf(StructWords(types)) => StructParsed(types)

\* what struct_declaration does with the same stream once its first token
\* has the kind Struct, which no lexeme gets (an invariant of ParseSpec)
StructTokenParses ==
  Returned =>
    \A types \in StructCases : input = StructTokens(types) => StructParsed(types)

\* Assign{x, Binary{left: x, right: e, op: the base operator}}
CompoundExpected(op, e) ==
  EXPR(Assign(T("Id", "x"), Binary(V("x"), e, T(SymbolKind(BaseLexeme(op)), ""))))

\* C9: x op= e produces the same AST as x = x op e, and x++ / x-- the same
\* AST as x = x + 1 / x = x - 1 with a Num literal "1": the operator of
\* the Binary node is the base operator, not the compound token.
C9_CompoundIsBaseOperator ==
  Returned =>
    /\ \A k \in CompoundCases :
         input = TokensOf(CompoundWords(k)) =>
           Program = <<CompoundExpected(k.op, k.e.ast)>>
    /\ \A k \in PlainCases :
         input = TokensOf(PlainWords(k)) =>
           Program = <<CompoundExpected(k.op, k.e.ast)>>
    /\ \A op \in {"++", "--"} :
         input \in {TokensOf(IncrementWords(op)), TokensOf(PlainStepWords(op))} =>
           Program = <<CompoundExpected(op, Num("1"))>>

\* what assignment stores: the compound or increment token itself (an
\* invariant of ParseSpec)
CompoundKeepsItsToken ==
  Returned =>
    /\ \A k \in CompoundCases :
         input = TokensOf(CompoundWords(k)) =>
           Program = <<EXPR(Assign(T("Id", "x"),
                                   Binary(V("x"), k.e.ast, T(SymbolKind(k.op), ""))))>>
    /\ \A op \in {"++", "--"} :
         input = TokensOf(IncrementWords(op)) =>
           Program = <<EXPR(Assign(T("Id", "x"),
                                   Binary(V("x"), Num("1"), T(SymbolKind(op), ""))))>>

PipeArgs(k) == [i \in 1..Len(k.bs) |-> k.bs[i].ast]

CallOf(args) == EXPR(Call(V("f"), args, T("RParen", "")))

\* C10: a |> f(b1, ..., bn) produces the same Call as f(a, b1, ..., bn),
\* with a once, as the first argument, and f(a1, ..., an) <| b the same
\* Call as f(a1, ..., an, b), with b as the last argument.
C10_PipesAreCalls ==
  Returned =>
    \A k \in PipeCases :
      /\ input \in {TokensOf(ForwardPipeWords(k)), TokensOf(PrependedCallWords(k))}
           => Clean /\ Program = <<CallOf(<<k.a.ast>> \o PipeArgs(k))>>
      /\ input \in {TokensOf(BackwardPipeWords(k)), TokensOf(AppendedCallWords(k))}
           => Clean /\ Program = <<CallOf(PipeArgs(k) \o <<k.a.ast>>)>>

\* parse has returned from a |> f(b)
C10_Witness ==
  /\ Returned
  /\ \E k \in PipeCases :
       /\ Len(k.bs) > 0
       /\ input = TokensOf(ForwardPipeWords(k))
  /\ Len(parser.statements) = 1

(***************************************************************************)
(* Further claims about Lexer::tokenize, under Spec.                       *)
(***************************************************************************)
Lexed == StripTokens(lexer.tokens)

Messages == [i \in 1..Len(lexer.errors) |-> lexer.errors[i].message]

\* what tokenize makes of the spaced spelling of each pair (TLC finds this
\* to hold): the token sequence the other spelling is compared with
SpacedYield ==
  LexStopped =>
    \A p \in SpacingCases : lexer.source = p.spaced => Lexed = p.tokens

\* C11: two sources that differ only by whitespace, newlines or comments
\* between the same tokens yield the same sequence of token kinds and texts.
C11_SpacingNeverSurfaces ==
  LexStopped =>
    \A p \in SpacingCases :
      lexer.source \in {p.dense, p.spaced} => Lexed = p.tokens

\* the number of newline characters among the first n characters of s
Newlines(s, n) ==
  Cardinality({i \in 1..(IF n < Len(s) THEN n ELSE Len(s)) : s[i] = "\n"})

\* C12: at every point of tokenization the line counter is 1 plus the number
\* of newlines consumed so far: the newlines before the current character,
\* with or without the current character itself.
C12_LineCountsNewlines ==
  (lpc \notin {"start", "panicked"}) =>
    /\ lexer.line >= 1 + Newlines(lexer.source, lexer.c)
    /\ lexer.line <= 1 + Newlines(lexer.source, lexer.c + 1)

\* what the code does with a newline met by the match of tokenize: the arm
\* counts it and the advance that leaves it counts it again (TLC finds this
\* to hold for the text a, space, newline, space)
NewlineCountedTwice ==
  (lexer.source = <<"a", " ", "\n", " ">> /\ lexer.c = 3 /\ ~lexer.panic)
  => lexer.line = 3

\* C18: a numeric literal lexes to exactly one Num token whose text is its
\* full spelling, with a leading '-' directly before a digit and a single
\* '.' before a digit as parts of it; a '-' not directly followed by a digit
\* lexes as Minus.
C18_NumberIsOneToken ==
  LexStopped =>
    \A k \in NumberCases :
      lexer.source = k.source =>
        Lexed = <<[kind |-> "Id", value |-> "a"]>>
                \o (IF k.minus THEN <<[kind |-> "Minus", value |-> ""]>> ELSE <<>>)
                \o <<[kind |-> "Num", value |-> k.text]>>

\* C19: a balanced block comment, nested or not, produces no token and no
\* diagnostic and tokenization resumes right after its last marker; the
\* depth is 1 inside a comment that is not nested; end of input at a depth
\* above 0 records the unterminated-block-comment diagnostic.
C19_BlockCommentsAreSkipped ==
  /\ (LexStopped /\ lexer.source \in BalancedComments) =>
       /\ Lexed = <<[kind |-> "Id", value |-> "a"], [kind |-> "LParen", value |-> ""]>>
       /\ lexer.errors = <<>>
  /\ (lpc = "block_comment" /\ lexer.source \in PlainComments) => nesting <= 1
  /\ (LexStopped /\ lexer.source \in UnterminatedComments) =>
       \E i \in 1..Len(lexer.errors) :
         lexer.errors[i].message = "an unterminated block comment"

\* what skip_block_comment does with the marker that opened the comment: it
\* is still the current character and is counted as a second opening, so a
\* balanced comment is never left and no diagnostic is recorded (TLC finds
\* this to hold)
OpeningMarkerCountedTwice ==
  /\ (lpc = "block_comment" /\ lexer.c = 5 /\ lexer.source \in PlainComments)
       => nesting = 2
  /\ (LexStopped /\ lexer.source \in PlainComments \cup UnterminatedComments)
       => Lexed = <<[kind |-> "Id", value |-> "a"]>> /\ lexer.errors = <<>>

\* C20: a character that starts no token, and a lone '&' or '|', records an
\* "unrecognized character" diagnostic, produces no token, and only that
\* character is skipped: the character after it is tokenized normally.
C20_StrayCharacterIsReported ==
  LexStopped =>
    \A s \in StrayCases :
      lexer.source = s =>
        /\ Lexed = <<[kind |-> "Id", value |-> "a"], [kind |-> "LParen", value |-> ""]>>
        /\ Messages = <<"unrecognized character">>

(***************************************************************************)
(* Further claims about Parser::parse, under ParseSpec.                    *)
(***************************************************************************)
\* the node of a binary operator: Logical for && and ||, Binary otherwise
OpNode(op, left, right) ==
  IF op \in {"||", "&&"} THEN Logical(left, right, T(SymbolKind(op), ""))
  ELSE Binary(left, right, T(SymbolKind(op), ""))

\* a op1 b op2 c by the ladder: op2 takes b and c only when its level is
\* tighter than that of op1, otherwise op1 takes a and b first
LadderExpected(k) ==
  IF Level(k.op2) > Level(k.op1)
  THEN OpNode(k.op1, V("a"), OpNode(k.op2, V("b"), V("c")))
  ELSE OpNode(k.op2, OpNode(k.op1, V("a"), V("b")), V("c"))

\* C13: binary operators follow the precedence ladder with left
\* associativity: in a op1 b op2 c two operators of one level group to the
\* left (Logical nodes for && and ||), and an operator of a tighter level
\* takes its operands first.
C13_LadderGroupsOperators ==
  Returned =>
    \A k \in LadderCases :
      input = TokensOf(LadderWords(k)) =>
        Clean /\ Program = <<EXPR(LadderExpected(k))>>

\* parse has returned from a + b * c ;
C13_Witness ==
  /\ Returned
  /\ input = TokensOf(LadderWords([op1 |-> "+", op2 |-> "*"]))
  /\ Len(parser.statements) = 1
  /\ parser.statements[1].v.tag = "Binary"

FuncExpected(k) ==
  Func([i \in 1..Len(k.params) |-> T("Id", k.params[i])], k.body.ast)

FuncText(k) ==
  "(lambda (" \o Join(k.params, " ") \o ") " \o k.body.txt \o ")"

\* C14: fn name (p1, ..., pn) { stmts } at statement position parses
\* without diagnostics to FuncDecl{name, Func{params, body = stmts}},
\* printed (func name (lambda (p1 ... pn) <stmts>)).
C14_NamedFunctionParses ==
  Returned =>
    \A k \in FuncCases :
      input = TokensOf(NamedFuncWords(k)) =>
        /\ Clean
        /\ Program = <<STMT(FuncStmt(T("Id", "f"), FuncExpected(k)))>>
        /\ Printed = "(func f " \o FuncText(k) \o ")"

\* what declaration does: check_next looks at the current token, which is
\* the fn keyword, so function is never called (TLC finds this to hold)
FunctionIsNeverCalled ==
  \A i \in 1..Len(stack) : stack[i].fn # "function"

IfExpected(k) ==
  STMT(IfStmt(k.c1.ast, k.s1.ast,
              CASE k.form = "else" -> Some(k.s2.ast)
                [] k.form = "elseif" -> Some(STMT(IfStmt(k.c2.ast, k.s2.ast, None)))
                [] OTHER -> None))

\* C15: if (c) s1 else s2 parses without diagnostics to If{c, s1, else s2},
\* if (c1) s1 else if (c2) s2 to If{c1, s1, else = If{c2, s2}}, and without
\* an else the else branch is absent.
C15_IfElseParses ==
  Returned =>
    \A k \in IfCases :
      input = TokensOf(IfWords(k)) => Clean /\ Program = <<IfExpected(k)>>

\* the if statement without an else does as the claim says (TLC finds this
\* to hold)
IfWithoutElseParses ==
  Returned =>
    \A k \in IfCases :
      (k.form = "if" /\ input = TokensOf(IfWords(k)))
        => Clean /\ Program = <<IfExpected(k)>>

\* what if_stmt does with an else: the else keyword is never consumed, so
\* the else branch is the Unknown of an unexpected token and diagnostics are
\* recorded (TLC finds this to hold)
ElseIsNeverConsumed ==
  Returned =>
    \A k \in IfCases :
      (k.form # "if" /\ input = TokensOf(IfWords(k))) =>
        /\ ~Clean
        /\ Program[1] = STMT(IfStmt(k.c1.ast, k.s1.ast, Some(EXPR(Unknown))))

\* C16: return e1, ..., en ; with n >= 0 parses without diagnostics to a
\* Return node with exactly those n expressions in source order.
C16_ReturnHoldsItsValues ==
  Returned =>
    \A vs \in ValueLists :
      input = TokensOf(ReturnWords(vs)) =>
        /\ Clean
        /\ Program = <<STMT(ReturnStmt(T("Return", ""),
                                       [i \in 1..Len(vs) |-> vs[i].ast]))>>

\* return with no value or one value does as the claim says (TLC finds this
\* to hold)
ReturnOfOneValueParses ==
  Returned =>
    \A vs \in ValueLists :
      (Len(vs) <= 1 /\ input = TokensOf(ReturnWords(vs))) =>
        /\ Clean
        /\ Program = <<STMT(ReturnStmt(T("Return", ""),
                                       [i \in 1..Len(vs) |-> vs[i].ast]))>>

\* C17: fn (p1, ..., pn) { stmts } at expression position parses without
\* diagnostics to Func{params, body = the statements of the block in
\* order}, alone and as a let initializer; the body is no implicit Return.
C17_BlockLambdaParses ==
  Returned =>
    \A k \in BlockLambdaCases :
      input = TokensOf(BlockLambdaWords(k)) =>
        /\ Clean
        /\ Program = <<IF k.let THEN STMT(VariableStmt(T("Id", "add"), FuncExpected(k)))
                       ELSE EXPR(FuncExpected(k))>>

\* what primary does with a block body: it tests for '}' where the block
\* begins with '{', so the body becomes the implicit Return of the Unknown
\* that the '{' gives (TLC finds this to hold)
BlockBodyIsImplicitReturn ==
  Returned =>
    \A k \in BlockLambdaCases :
      (~k.let /\ input = TokensOf(BlockLambdaWords(k))) =>
        /\ Len(Program) > 0
        /\ Program[1] =
             EXPR(Func([i \in 1..Len(k.params) |-> T("Id", k.params[i])],
                       <<STMT(ReturnStmt(T("RParen", ""), <<Unknown>>))>>))

\* lhs = rhs as the claim gives it
AssignExpected(k) ==
  CASE k.lhs.form = "variable" -> Assign(T("Id", "x"), k.rhs.ast)
    [] k.lhs.form = "get" -> Set(V("x"), T("Id", "y"), k.rhs.ast)
    [] OTHER -> k.lhs.ast

\* the one diagnostic of an invalid target, at the '=' token
InvalidTarget(k) ==
  <<ParserError("invalid assignment target", 1, Len(k.lhs.ws) + 1)>>

\* C21: lhs = rhs yields Assign{name, rhs} for a Variable and Set{object,
\* member, rhs} for a Get, with no diagnostic; for any other lhs exactly one
\* "invalid assignment target" diagnostic is recorded at the position of
\* the '=', the right-hand side is consumed and the left expression is
\* returned unchanged; a = b = c yields Assign{a, Assign{b, c}}.
C21_AssignmentTargets ==
  Returned =>
    /\ \A k \in AssignCases :
         input = TokensOf(AssignWords(k)) =>
           /\ Program = <<EXPR(AssignExpected(k))>>
           /\ parser.errors = IF k.lhs.form = "other" THEN InvalidTarget(k) ELSE <<>>
    /\ input = TokensOf(ChainWords) =>
         /\ Clean
         /\ Program = <<EXPR(Assign(T("Id", "a"), Assign(T("Id", "b"), V("c"))))>>

\* parse has returned from an assignment to a target that is neither a
\* variable nor a member access
C21_Witness ==
  /\ Returned
  /\ \E k \in AssignCases :
       k.lhs.form = "other" /\ input = TokensOf(AssignWords(k))
  /\ Len(parser.errors) = 1

\* the kinds that the parsing functions pass to expect
ExpectKinds ==
  {"Id", "LParen", "RParen", "LBrace", "RBrace", "RBracket", "SColon", "Colon",
   "Comma"}

\* the effect of expect(kind) on the parser P, as the claim gives it
ExpectFrame(P, kind) ==
  LET Q == expect(P, kind, "expected", input)
  IN IF P.current.kind # kind
     THEN /\ Q.errors = Append(P.errors,
                               ParserError("expected", P.current.position[1],
                                           P.current.position[2]))
          /\ Q.c = P.c
          /\ Q.current = P.current
          /\ ~Halted(Q)
     ELSE /\ Q.errors = P.errors
          /\ Q.c = P.c + 1
          /\ Q.current = input[Q.c + 1]
          /\ ~Halted(Q)

\* C22: in every state that parse reaches, expect(kind) on a current token
\* of another kind appends exactly one diagnostic with the line and column
\* of the current token and leaves the cursor and the current token as they
\* are; on a current token of that kind it consumes exactly one token and
\* appends no diagnostic; the earlier diagnostics stay as they are.
C22_ExpectFrame ==
  (ppc = "running") => \A kind \in ExpectKinds : ExpectFrame(parser, kind)

\* a failed expect(SColon) has acted: its diagnostic is the last one and the
\* cursor is still on a token that is not a ';'
C22_Witness ==
  /\ ppc = "running"
  /\ Len(parser.errors) > 0
  /\ Last(parser.errors).message = "expected ';'"
  /\ Last(parser.errors).col = parser.current.position[2]
  /\ parser.current.kind # "SColon"

\* no step of parse changes or drops a diagnostic already recorded
DiagnosticsOnlyGrow ==
  [][/\ Len(parser'.errors) >= Len(parser.errors)
     /\ SubSeq(parser'.errors, 1, Len(parser.errors)) = parser.errors]_vars

RECURSIVE StructsBalanced(_)

\* every struct declaration in the node n has as many types as fields
StructsBalanced(n) ==
  IF n.node = "EXPR" THEN TRUE
  ELSE LET s == n.v
       IN CASE s.tag = "Struct" -> Len(s.types) = Len(s.fields)
            [] s.tag = "Block" ->
                 \A i \in 1..Len(s.statements) : StructsBalanced(s.statements[i])
            [] s.tag = "If" ->
                 StructsBalanced(s.then) /\ (s.els.some => StructsBalanced(s.els.v))
            [] s.tag = "While" -> StructsBalanced(s.body)
            [] OTHER -> TRUE

\* C23: every struct declaration that parse returns has exactly as many
\* types as field names, also in runs that record diagnostics, so that the
\* printer shows each field with its own type.
C23_StructFieldsHaveTypes ==
  Returned =>
    \A i \in 1..Len(parser.statements) : StructsBalanced(parser.statements[i])

\* what struct_declaration does with a type position that holds no
\* identifier: the field is kept, no type is pushed, and the printer drops
\* the field (TLC finds this to hold)
UntypedFieldIsKept ==
  (Returned /\ input = UntypedField) =>
    /\ Program = <<STMT(StructStmt(T("Id", "x"), <<T("Id", "x")>>, <<>>))>>
    /\ [i \in 1..Len(parser.errors) |-> parser.errors[i].message]
         = <<"invalid type info">>
    /\ Printed = "(struct x)"

RECURSIVE ExprLiteralsOk(_), NodeLiteralsOk(_)

\* every Literal in the expression e has a kind of LiteralKinds
ExprLiteralsOk(e) ==
  CASE e.tag = "Literal" -> e.kind \in LiteralKinds
    [] e.tag \in {"Binary", "Logical"} ->
         ExprLiteralsOk(e.left) /\ ExprLiteralsOk(e.right)
    [] e.tag = "Group" -> ExprLiteralsOk(e.expr)
    [] e.tag = "Unary" -> ExprLiteralsOk(e.right)
    [] e.tag = "Assign" -> ExprLiteralsOk(e.value)
    [] e.tag = "Call" ->
         ExprLiteralsOk(e.callee)
         /\ \A i \in 1..Len(e.args) : ExprLiteralsOk(e.args[i])
    [] e.tag = "Get" -> ExprLiteralsOk(e.instance)
    [] e.tag = "Set" -> ExprLiteralsOk(e.instance) /\ ExprLiteralsOk(e.value)
    [] e.tag = "Func" -> \A i \in 1..Len(e.body) : NodeLiteralsOk(e.body[i])
    [] OTHER -> TRUE

NodeLiteralsOk(n) ==
  IF n.node = "EXPR" THEN ExprLiteralsOk(n.v)
  ELSE LET s == n.v
       IN CASE s.tag = "Variable" -> ExprLiteralsOk(s.init)
            [] s.tag = "If" ->
                 /\ ExprLiteralsOk(s.condition)
                 /\ NodeLiteralsOk(s.then)
                 /\ (s.els.some => NodeLiteralsOk(s.els.v))
            [] s.tag = "Block" ->
                 \A i \in 1..Len(s.statements) : NodeLiteralsOk(s.statements[i])
            [] s.tag = "While" -> ExprLiteralsOk(s.condition) /\ NodeLiteralsOk(s.body)
            [] s.tag = "Func" -> ExprLiteralsOk(s.func)
            [] s.tag = "Return" ->
                 \A i \in 1..Len(s.values) : ExprLiteralsOk(s.values[i])
            [] s.tag = "Import" -> ExprLiteralsOk(s.name)
            [] OTHER -> TRUE

\* C24: every Literal node of every program that parse returns, for valid
\* and for malformed token sequences, has a kind in {Str, Num, True, False,
\* Null}, all of which the printer of a Literal accepts.
C24_LiteralKinds ==
  Returned =>
    \A i \in 1..Len(parser.statements) : NodeLiteralsOk(parser.statements[i])

\* parse has returned, with a diagnostic, from an assignment to a number
\* literal, and the literal is the program
C24_Witness ==
  /\ Returned
  /\ input = TokensOfKinds(<<"Num", "Equal", "Str", "SColon">>)
  /\ ~Clean
  /\ Program = <<EXPR(Num("1"))>>

====
